---- MODULE Spec2Model ----
(***************************************************************************)
(* Model of the hkl3D scripts: crystal3D.py, crystal_structure.py,         *)
(* hkl_reflections.py and plot_crystal.py.                                 *)
(*                                                                         *)
(* A text line is a record [indent, toks]: whether the raw line starts     *)
(* with whitespace, and the whitespace-separated fields of line.split().   *)
(* Python floats are fixed-point integers in units of 1/ONE.               *)
(***************************************************************************)
EXTENDS Integers, Sequences, FiniteSets, TLC

\* ---------------------------------------------------------------- bounds
MaxLines == 3        \* lines read from the input file in one run
MaxAtoms == 3        \* atoms handed to the scale heuristic

\* ------------------------------------------------------------ arithmetic
ONE == 1000

Abs(x) == IF x < 0 THEN 0 - x ELSE x
Min2(a, b) == IF b < a THEN b ELSE a
Max2(a, b) == IF b > a THEN b ELSE a

\* a * b and a / b on floats (b # 0)
\* a dictionary given by its (key, value) items
Table(items) ==
  [key \in {item[1] : item \in items} |->
     (CHOOSE item \in items : item[1] = key)[2]]

FMul(a, b) == (a * b) \div ONE
FDiv(a, b) == (a * ONE) \div b

\* math.sqrt of a float given as the product of two floats (units 1/ONE^2)
RECURSIVE SqrtBetween(_, _, _)
SqrtBetween(n, lo, hi) ==
  IF hi - lo <= 1 THEN lo
  ELSE LET mid == (lo + hi) \div 2 IN
       IF mid * mid <= n THEN SqrtBetween(n, mid, hi)
       ELSE SqrtBetween(n, lo, mid)
ISqrt(n) == SqrtBetween(n, 0, 32 * ONE)

\* ------------------------------------------------------- number literals
\* float(s): the literals the input lines use, with their values
FloatTable ==
  Table({
    <<"0", 0>>, <<"1", ONE>>, <<"2", 2 * ONE>>, <<"-1", 0 - ONE>>,
    <<"0.0", 0>>, <<"1.0", ONE>>, <<"0.5", 500>>, <<"0.25", 250>>,
    <<"0.004", 4>>, <<"3.5", 3500>>, <<"10.5", 10500>>,
    <<"60", 60 * ONE>>, <<"90", 90 * ONE>>, <<"120", 120 * ONE>> })

\* int(s): float literals with a decimal point are rejected by int()
IntTable ==
  Table({
    <<"0", 0>>, <<"1", 1>>, <<"2", 2>>, <<"-1", 0 - 1>>,
    <<"60", 60>>, <<"90", 90>>, <<"120", 120>> })

IsFloat(s) == s \in DOMAIN FloatTable
IsInt(s) == s \in DOMAIN IntTable

\* ----------------------------------------------------------------- lines
Ln(ind, toks) == [indent |-> ind, toks |-> toks]

\* 'X         Y         Z         B         Occ       Spin      Charge'
AtomHeader == <<"X", "Y", "Z", "B", "Occ", "Spin", "Charge">>
\* "# H   K   L     Mult    dspc                   |Fc|^2"
HklHeader == <<"#", "H", "K", "L", "Mult", "dspc", "|Fc|^2">>

\* parts[i] with Python's 0-based index
At(parts, i) == parts[i + 1]

\* line.strip()
Strip(line) == [line EXCEPT !.indent = FALSE]

\* marker in line
Contains(line, marker) ==
  \E i \in 1..Len(line.toks) :
     /\ i + Len(marker) - 1 <= Len(line.toks)
     /\ SubSeq(line.toks, i, i + Len(marker) - 1) = marker

\* line.startswith('# ' + word), line.startswith('#')
StartsWithWord(line, word) ==
  /\ ~line.indent
  /\ Len(line.toks) >= 2
  /\ line.toks[1] = "#"
  /\ line.toks[2] = word
StartsWithHash(line) ==
  /\ ~line.indent
  /\ Len(line.toks) >= 1
  /\ line.toks[1] = "#"

\* The lines an input file is made of.
AtomLines ==
  { Ln(FALSE, <<"#", "Name">> \o AtomHeader),
    Ln(FALSE, <<"#", "Atom", "Fe1", "0.5", "0", "0", "0.5", "1", "0", "2">>),
    Ln(TRUE,  <<"#", "Atom", "O1", "0", "0.5", "0.25", "0.5", "1", "0", "-1", "x">>),
    Ln(FALSE, <<"#", "Atom", "Fe2", "0.5", "0", "0", "0.5", "1", "0">>),
    Ln(FALSE, <<"#", "Atom", "O2", "0", "abc", "0", "0.5", "1", "0", "-1">>),
    Ln(FALSE, <<"#", "Atom", "H1", "0", "0", "0">> \o AtomHeader),
    Ln(FALSE, <<"#", "Site", "O3", "0", "0", "0", "0.5", "1", "0", "-1">>) }
CellLines ==
  { Ln(FALSE, <<"#", "CELL", "2", "2", "2", "90", "90", "120">>),
    Ln(FALSE, <<"#", "CELL", "2", "2", "2", "90", "90">>),
    Ln(FALSE, <<"#", "CELL", "2", "2", "2", "90">>),
    Ln(FALSE, <<"#", "CELL", "2", "abc", "2", "90", "90", "90">>),
    Ln(FALSE, <<"#", "CELL", "1", "1", "2", "90", "90", "90">> \o AtomHeader) }
HklLines ==
  { Ln(FALSE, HklHeader),
    Ln(FALSE, <<"1", "0", "-1", "2", "3.5", "10.5">>),
    Ln(TRUE,  <<"0", "2", "1", "2", "0.5", "0.5", "x">>),
    Ln(FALSE, <<"1", "0", "0", "2">>),
    Ln(FALSE, <<"1.0", "0", "0", "2", "3.5", "10.5">>),
    Ln(FALSE, <<"1", "0", "0", "2", "3.5", "abc">>) }
BlankLines == { Ln(TRUE, <<>>) }
LineSet == AtomLines \union CellLines \union HklLines \union BlankLines

\* -------------------------------------------------------------- readers
\* Outcome of a step of a reader: exc = "" unless the step raised.
NoExc == ""

StartsWithAtom(line) == StartsWithWord(line, "Atom")
StartsWithCell(line) == StartsWithWord(line, "CELL")

\* atom_data with x and y taken from each other's field
atom_data_swapped(parts) ==
  [name   |-> At(parts, 2),
   x      |-> FloatTable[At(parts, 4)],
   y      |-> FloatTable[At(parts, 3)],
   z      |-> FloatTable[At(parts, 5)],
   B      |-> FloatTable[At(parts, 6)],
   occ    |-> FloatTable[At(parts, 7)],
   spin   |-> FloatTable[At(parts, 8)],
   charge |-> FloatTable[At(parts, 9)]]

\* the atom_data dictionary built from parts
atom_data(parts) ==
  [name   |-> At(parts, 2),
   x      |-> FloatTable[At(parts, 3)],
   y      |-> FloatTable[At(parts, 4)],
   z      |-> FloatTable[At(parts, 5)],
   B      |-> FloatTable[At(parts, 6)],
   occ    |-> FloatTable[At(parts, 7)],
   spin   |-> FloatTable[At(parts, 8)],
   charge |-> FloatTable[At(parts, 9)]]

\* the float() calls of atom_data all succeed
atom_data_ok(parts) == \A i \in 3..9 : IsFloat(At(parts, i))

\* atom_branch without the reading_atoms test
atom_branch_any_section(st, line) ==
  IF StartsWithAtom(line)
  THEN LET parts == line.toks IN
       IF Len(parts) >= 10
       THEN IF \A i \in 3..9 : IsFloat(At(parts, i))
            THEN [st EXCEPT !.atoms = Append(@, atom_data(parts))]
            ELSE [st EXCEPT !.exc = "ValueError"]
       ELSE st
  ELSE st

\* the branch `if reading_atoms and line.startswith('# Atom')`
atom_branch(st, line) ==
  IF st.reading_atoms /\ StartsWithAtom(line)
  THEN LET parts == line.toks IN
       IF Len(parts) >= 10
       THEN IF atom_data_ok(parts)
            THEN [st EXCEPT !.atoms = Append(@, atom_data(parts))]
            ELSE [st EXCEPT !.exc = "ValueError"]
       ELSE st
  ELSE st

\* crystal3D.read_crystal_structure: the body of `for line in f`
read_crystal_structure_3D_line(st, raw) ==
  LET line == Strip(raw) IN
  IF line.toks = <<>> THEN st
  ELSE IF Contains(line, AtomHeader) THEN [st EXCEPT !.reading_atoms = TRUE]
  ELSE atom_branch(st, line)

NoLattice == [set |-> FALSE, a |-> 0, b |-> 0, c |-> 0,
              alpha |-> 0, beta |-> 0, gamma |-> 0]
DefaultLattice == [set |-> TRUE, a |-> ONE, b |-> ONE, c |-> ONE,
                   alpha |-> 90 * ONE, beta |-> 90 * ONE, gamma |-> 90 * ONE]

\* the lattice_params dictionary built from a '# CELL' line
cell_data(parts) ==
  [set   |-> TRUE,
   a     |-> FloatTable[At(parts, 2)],
   b     |-> FloatTable[At(parts, 3)],
   c     |-> FloatTable[At(parts, 4)],
   alpha |-> FloatTable[At(parts, 5)],
   beta  |-> FloatTable[At(parts, 6)],
   gamma |-> FloatTable[At(parts, 7)]]

\* the branch `if line.startswith('# CELL')` up to its `continue`; the
\* dictionary's values are evaluated in order, parts[2] first
cell_branch(st, line) ==
  LET parts == line.toks IN
  IF Len(parts) >= 7
  THEN IF \E i \in 2..6 : ~IsFloat(At(parts, i))
       THEN [st EXCEPT !.exc = "ValueError"]
       ELSE IF Len(parts) < 8
       THEN [st EXCEPT !.exc = "IndexError"]
       ELSE IF ~IsFloat(At(parts, 7))
       THEN [st EXCEPT !.exc = "ValueError"]
       ELSE [st EXCEPT !.lattice_params = cell_data(parts),
                       !.out = @ \o <<"Lattice parameters", "Angles">>]
  ELSE st

\* crystal_structure.read_crystal_structure: the body of `for line in f`
read_crystal_structure_CS_line(st, raw) ==
  LET line == Strip(raw) IN
  IF line.toks = <<>> THEN st
  ELSE IF StartsWithCell(line) THEN cell_branch(st, line)
  ELSE IF Contains(line, AtomHeader) THEN [st EXCEPT !.reading_atoms = TRUE]
  ELSE atom_branch(st, line)

\* the end of the reader without `if lattice_params is None:`
read_crystal_structure_CS_end_no_default(st) == st

\* crystal_structure.read_crystal_structure after the loop
read_crystal_structure_CS_end(st) ==
  IF ~st.lattice_params.set
  THEN [st EXCEPT !.lattice_params = DefaultLattice,
                  !.out = @ \o <<"Warning: No lattice parameters">>]
  ELSE st

\* read_hkl_file without the `len(values) >= 6` test
read_hkl_file_line_unchecked(st, line) ==
  IF Contains(line, HklHeader) THEN [st EXCEPT !.found_header = TRUE]
  ELSE IF st.found_header /\ Strip(line).toks # <<>> /\ ~StartsWithHash(line)
  THEN LET values == line.toks IN
       IF Len(values) < 6
       THEN [st EXCEPT !.exc = IF \E i \in 0..Min2(2, Len(values) - 1) : ~IsInt(At(values, i))
                                THEN "ValueError" ELSE "IndexError"]
       ELSE IF \E i \in 0..2 : ~IsInt(At(values, i))
       THEN [st EXCEPT !.exc = "ValueError"]
       ELSE IF ~IsFloat(At(values, 5))
       THEN [st EXCEPT !.exc = "ValueError"]
       ELSE [st EXCEPT !.hkl_data = Append(@,
                <<IntTable[At(values, 0)], IntTable[At(values, 1)],
                  IntTable[At(values, 2)], FloatTable[At(values, 5)]>>)]
  ELSE st

\* hkl_reflections.read_hkl_file: the body of `for line in f`
read_hkl_file_line(st, line) ==
  IF Contains(line, HklHeader) THEN [st EXCEPT !.found_header = TRUE]
  ELSE IF st.found_header /\ Strip(line).toks # <<>> /\ ~StartsWithHash(line)
  THEN LET values == line.toks IN
       IF Len(values) >= 6
       THEN IF \E i \in 0..2 : ~IsInt(At(values, i))
            THEN [st EXCEPT !.exc = "ValueError"]
            ELSE IF ~IsFloat(At(values, 5))
            THEN [st EXCEPT !.exc = "ValueError"]
            ELSE [st EXCEPT !.hkl_data = Append(@,
                     <<IntTable[At(values, 0)], IntTable[At(values, 1)],
                       IntTable[At(values, 2)], FloatTable[At(values, 5)]>>)]
       ELSE st
  ELSE st

\* read_hkl_reflections with the intensity taken from field 4 (dspc)
read_hkl_reflections_line_dspc(st, line) ==
  IF Contains(line, HklHeader) THEN [st EXCEPT !.found_header = TRUE]
  ELSE IF st.found_header /\ Strip(line).toks # <<>> /\ ~StartsWithHash(line)
  THEN LET values == line.toks IN
       IF Len(values) >= 6
       THEN IF \E i \in 0..2 : ~IsInt(At(values, i))
            THEN [st EXCEPT !.exc = "ValueError"]
            ELSE IF ~IsFloat(At(values, 4))
            THEN [st EXCEPT !.exc = "ValueError"]
            ELSE [st EXCEPT !.hkl_data = Append(@,
                     <<IntTable[At(values, 0)], IntTable[At(values, 1)],
                       IntTable[At(values, 2)], FloatTable[At(values, 4)]>>)]
       ELSE st
  ELSE st

\* crystal3D.read_hkl_reflections: the body of `for line in f`
read_hkl_reflections_line(st, line) ==
  IF Contains(line, HklHeader) THEN [st EXCEPT !.found_header = TRUE]
  ELSE IF st.found_header /\ Strip(line).toks # <<>> /\ ~StartsWithHash(line)
  THEN LET values == line.toks IN
       IF Len(values) >= 6
       THEN IF \E i \in 0..2 : ~IsInt(At(values, i))
            THEN [st EXCEPT !.exc = "ValueError"]
            ELSE IF ~IsFloat(At(values, 5))
            THEN [st EXCEPT !.exc = "ValueError"]
            ELSE [st EXCEPT !.hkl_data = Append(@,
                     <<IntTable[At(values, 0)], IntTable[At(values, 1)],
                       IntTable[At(values, 2)], FloatTable[At(values, 5)]>>)]
       ELSE st
  ELSE st

\* plot_crystal.read_hkl_file: the body of `for line in f`
plot_crystal_read_hkl_file_line(st, line) ==
  IF Contains(line, HklHeader) THEN [st EXCEPT !.found_header = TRUE]
  ELSE IF st.found_header /\ Strip(line).toks # <<>> /\ ~StartsWithHash(line)
  THEN LET values == line.toks IN
       IF Len(values) >= 6
       THEN IF \E i \in 0..2 : ~IsInt(At(values, i))
            THEN [st EXCEPT !.exc = "ValueError"]
            ELSE IF ~IsFloat(At(values, 5))
            THEN [st EXCEPT !.exc = "ValueError"]
            ELSE [st EXCEPT !.hkl_data = Append(@,
                     <<IntTable[At(values, 0)], IntTable[At(values, 1)],
                       IntTable[At(values, 2)], FloatTable[At(values, 5)]>>)]
       ELSE st
  ELSE st


\* ----------------------------------------------------- element tables
\* the characters of the atom names the input lines use
Chars ==
  Table({
    <<"Fe1", <<"F", "e", "1">>>>, <<"Fe2", <<"F", "e", "2">>>>,
    <<"O1", <<"O", "1">>>>, <<"O2", <<"O", "2">>>>,
    <<"H1", <<"H", "1">>>>, <<"H2", <<"H", "2">>>>,
  \* element symbols, and labels with other suffixes
    <<"Fe", <<"F", "e">>>>, <<"O", <<"O">>>>, <<"H", <<"H">>>>,
    <<"C", <<"C">>>>, <<"Cs", <<"C", "s">>>>,
    <<"C1", <<"C", "1">>>>, <<"Cs1", <<"C", "s", "1">>>>,
    <<"C_2", <<"C", "_", "2">>>>, <<"O-2", <<"O", "-", "2">>>>,
    <<"1Fe2", <<"1", "F", "e", "2">>>>, <<"F1e", <<"F", "1", "e">>>>,
    <<"Fe1a", <<"F", "e", "1", "a">>>>, <<"Fea", <<"F", "e", "a">>>>,
    <<"O1s", <<"O", "1", "s">>>>, <<"Os", <<"O", "s">>>>,
    <<"X1", <<"X", "1">>>>, <<"X", <<"X">>>>,
    <<"12", <<"1", "2">>>>, <<"", <<>>>> })

Letters == {"F", "e", "O", "H", "C", "s", "a", "X"}
\* str.isalpha on one character
IsAlpha(ch) == ch \in Letters

\* the name taken as the key, without the filter
element_of_unfiltered(name) == Chars[name]

\* ''.join(filter(str.isalpha, element_symbol))
element_of(name) == SelectSeq(Chars[name], IsAlpha)

\* the string made of a sequence of characters
Join(cs) == CHOOSE name \in DOMAIN Chars : Chars[name] = cs

\* ATOMIC_RADII, the entries of the elements the input lines name
ATOMIC_RADII ==
  Table({
    <<<<"F", "e">>, 1260>>, <<<<"O">>, 600>>, <<<<"H">>, 310>>,
    <<<<"C">>, 700>>, <<<<"C", "s">>, 2650>>, <<<<"O", "s">>, 1350>> })

DefaultRadius == ONE

get_atomic_radius(name) ==
  LET element == element_of(name) IN
  IF element \in DOMAIN ATOMIC_RADII THEN ATOMIC_RADII[element]
  ELSE DefaultRadius

\* ELEMENT_COLORS, the entries of the same elements
ELEMENT_COLORS ==
  Table({
    <<<<"F", "e">>, "#E06633">>, <<<<"O">>, "#FF0D0D">>,
    <<<<"H">>, "#FFFFFF">>, <<<<"C">>, "#909090">>,
    <<<<"C", "s">>, "#AC7E20">>, <<<<"O", "s">>, "#266696">> })

DefaultColor == "#808080"

get_element_color(name) ==
  LET element == element_of(name) IN
  IF element \in DOMAIN ELEMENT_COLORS THEN ELEMENT_COLORS[element]
  ELSE DefaultColor

\* ------------------------------------------------ coordinate transform
\* math.cos(d): the cosine of the angle taken as radians
CosDeg_no_radians ==
  Table({
    <<60 * ONE, 0 - 952>>, <<90 * ONE, 0 - 448>>, <<120 * ONE, 814>>,
    <<0, ONE>>, <<45 * ONE, 525>>, <<135 * ONE, 0 - 996>>,
    <<180 * ONE, 0 - 598>>, <<240 * ONE, 326>>, <<270 * ONE, 984>>,
    <<360 * ONE, 0 - 284>> })

\* math.cos(math.radians(d)), math.sin(math.radians(d)) for the angles used
CosDeg ==
  Table({
    <<60 * ONE, 500>>, <<90 * ONE, 0>>, <<120 * ONE, 0 - 500>>,
    <<0, ONE>>, <<45 * ONE, 707>>, <<135 * ONE, 0 - 707>>,
    <<180 * ONE, 0 - ONE>>, <<240 * ONE, 0 - 500>>, <<270 * ONE, 0>>,
    <<360 * ONE, ONE>> })
SinDeg ==
  Table({
    <<60 * ONE, 866>>, <<90 * ONE, ONE>>, <<120 * ONE, 866>>,
    <<0, 0>>, <<45 * ONE, 707>>, <<135 * ONE, 707>>,
    <<180 * ONE, 0>>, <<240 * ONE, 0 - 866>>, <<270 * ONE, 0 - ONE>>,
    <<360 * ONE, 0>> })

Raised(e) == [exc |-> e, v |-> <<0, 0, 0>>]

convert_fractional_to_real(frac, lp) ==
  LET x_frac == frac[1]
      y_frac == frac[2]
      z_frac == frac[3]
      a == lp.a
      b == lp.b
      c == lp.c
      ca == CosDeg[lp.alpha]
      cb == CosDeg[lp.beta]
      cg == CosDeg[lp.gamma]
      sa == SinDeg[lp.alpha]
      sb == SinDeg[lp.beta]
      sg == SinDeg[lp.gamma]
      \* the argument of math.sqrt, in units of 1/ONE^2
      inner == ONE * ONE - ca * ca - cb * cb - cg * cg
               + ((2 * ca * cb) \div ONE) * cg
  IN
  IF inner < 0 THEN Raised("ValueError")
  ELSE LET V == FMul(FMul(FMul(a, b), c), ISqrt(inner)) IN
       IF V = 0 THEN Raised("ZeroDivisionError")
       ELSE IF FMul(sb, sg) = 0 \/ FMul(sa, sg) = 0 \/ FMul(sa, sb) = 0
       THEN Raised("ZeroDivisionError")
       ELSE LET x_real == FMul(a, x_frac) + FMul(FMul(b, cg), y_frac)
                          + FMul(FMul(c, cb), z_frac)
                y_real == FMul(FMul(b, sg), y_frac)
                          + FMul(FDiv(FMul(c, ca - FMul(cb, cg)), sg), z_frac)
                z_real == FMul(FMul(c, sb), z_frac)
            IN [exc |-> NoExc, v |-> <<x_real, y_real, z_real>>]

\* ---------------------------------------------------- scale heuristic
Inf == 500000
ScaleMin == 10
ScaleMax3D == 1000
ScaleMaxCS == 5000
ZeroDistanceScale == 50

EmptyDict == [key \in {} |-> 0]

MinOf(S) == CHOOSE m \in S : \A e \in S : m <= e
MaxOf(S) == CHOOSE m \in S : \A e \in S : m >= e

\* the elements of a set of numbers in increasing order: the order in which
\* a loop over the lines or the atoms meets them
RECURSIVE Ascending(_)
Ascending(S) ==
  IF S = {} THEN <<>>
  ELSE LET m == MinOf(S) IN <<m>> \o Ascending(S \ {m})

Pairs(n) == {p \in (1..n) \X (1..n) : p[1] < p[2]}

\* math.sqrt(dx*dx + dy*dy + dz*dz)
Distance(p, q) ==
  LET dx == p[1] - q[1]
      dy == p[2] - q[2]
      dz == p[3] - q[3]
  IN ISqrt(dx * dx + dy * dy + dz * dz)

Frac(atom) == <<atom.x, atom.y, atom.z>>

\* the overlap_analysis dictionary
overlap_analysis_of(min_distance, max_radius_sum, optimal_scale, t) ==
  LET scaled_radius_sum == FMul(max_radius_sum, optimal_scale)
      overlap_with_optimal ==
        IF scaled_radius_sum > 0
        THEN Max2(0, FDiv(scaled_radius_sum - min_distance, scaled_radius_sum))
        ELSE 0
  IN [min_distance |-> min_distance,
      max_radius_sum |-> max_radius_sum,
      current_overlap_ratio |->
         Max2(0, FDiv(max_radius_sum - min_distance, max_radius_sum)),
      optimal_scale |-> optimal_scale,
      overlap_with_optimal |-> overlap_with_optimal,
      scaled_radius_sum |-> scaled_radius_sum,
      target_overlap |-> t]

\* scale_for_overlap without the factor 2 of the full-overlap branch
scale_for_overlap_no_double(min_distance, max_radius_sum, t) ==
  IF t <= 0 THEN FDiv(min_distance, max_radius_sum)
  ELSE IF t >= ONE THEN FDiv(min_distance, max_radius_sum)
  ELSE FDiv(FMul(min_distance, ONE + t), max_radius_sum)

\* the three branches on target_overlap
scale_for_overlap(min_distance, max_radius_sum, t) ==
  IF t <= 0 THEN FDiv(min_distance, max_radius_sum)
  ELSE IF t >= ONE THEN FDiv(2 * min_distance, max_radius_sum)
  ELSE FDiv(FMul(min_distance, ONE + t), max_radius_sum)

\* the early return taken for an empty list only
too_few_atoms_empty_only(as) == Len(as) < 1

\* `if len(atoms) < 2:`
too_few_atoms(as) == Len(as) < 2

\* max_radius_sum without `max_radius_sum *= 2`
max_radius_sum_3D_single(as) ==
  MaxOf({0} \union {get_atomic_radius(as[i].name) : i \in 1..Len(as)})

\* crystal3D: max_radius_sum after the loop and `max_radius_sum *= 2`
max_radius_sum_3D(as) ==
  2 * MaxOf({0} \union {get_atomic_radius(as[i].name) : i \in 1..Len(as)})

\* crystal_structure: max_radius_sum = 2 * max(radii)
max_radius_sum_CS(as) ==
  2 * MaxOf({get_atomic_radius(as[i].name) : i \in 1..Len(as)})

\* crystal3D: max(0.01, min(1.0, optimal_scale))
clamp_3D(optimal_scale) == Max2(ScaleMin, Min2(ScaleMax3D, optimal_scale))

\* the clamp of crystal_structure without its upper bound
clamp_CS_no_upper(optimal_scale) == Max2(ScaleMin, optimal_scale)

\* crystal_structure: max(0.01, min(5.0, optimal_scale))
clamp_CS(optimal_scale) == Max2(ScaleMin, Min2(ScaleMaxCS, optimal_scale))

\* the dictionary and the scale both functions return after the clamp
scale_result(min_distance, max_radius_sum, clamped, t) ==
  [exc |-> NoExc, scale |-> clamped,
   analysis |-> overlap_analysis_of(min_distance, max_radius_sum, clamped, t)]

\* crystal3D: optimal_scale from min_distance and max_radius_sum, clamped
scaled_3D(min_distance, max_radius_sum, t) ==
  scale_result(min_distance, max_radius_sum,
               clamp_3D(IF max_radius_sum > 0
                        THEN scale_for_overlap(min_distance, max_radius_sum, t)
                        ELSE ZeroDistanceScale), t)

\* crystal3D.calculate_optimal_scale_factor
calculate_optimal_scale_factor_3D(as, t) ==
  IF too_few_atoms(as)
  THEN [exc |-> NoExc, scale |-> ONE, analysis |-> EmptyDict]
  ELSE scaled_3D(MinOf({Inf} \union
                       {Distance(Frac(as[p[1]]), Frac(as[p[2]])) : p \in Pairs(Len(as))}),
                 max_radius_sum_3D(as), t)

\* crystal_structure: optimal_scale from min_distance and max_radius_sum,
\* clamped
scaled_CS(min_distance, max_radius_sum, t) ==
  scale_result(min_distance, max_radius_sum,
               clamp_CS(IF min_distance > 0
                        THEN scale_for_overlap(min_distance, max_radius_sum, t)
                        ELSE ZeroDistanceScale), t)

\* crystal_structure: `if not distances:` and what follows it
scale_from_distances_CS(as, distances, t) ==
  IF distances = {}
  THEN [exc |-> NoExc, scale |-> ONE, analysis |-> EmptyDict]
  ELSE scaled_CS(MinOf(distances), max_radius_sum_CS(as), t)

\* crystal_structure: the loop over the pairs, real[i] being the result of
\* convert_fractional_to_real for atom i
scale_from_positions_CS(as, real, t) ==
  IF Pairs(Len(as)) # {} /\ real[1].exc # NoExc
  THEN [exc |-> real[1].exc, scale |-> 0, analysis |-> EmptyDict]
  ELSE scale_from_distances_CS(
         as, {Distance(real[p[1]].v, real[p[2]].v) : p \in Pairs(Len(as))}, t)

\* crystal_structure.calculate_optimal_scale_factor
calculate_optimal_scale_factor_CS(as, lp, t) ==
  IF too_few_atoms(as)
  THEN [exc |-> NoExc, scale |-> ONE, analysis |-> EmptyDict]
  ELSE scale_from_positions_CS(
         as, [i \in 1..Len(as) |-> convert_fractional_to_real(Frac(as[i]), lp)], t)

\* ------------------------------------------------------- sphere mesh
\* np.linspace(0, stop, resolution)[k] in degrees: stop is 360 for phi and
\* 180 for theta
Linspace(stop, resolution, k) ==
  IF resolution = 1 THEN 0 ELSE (k * stop * ONE) \div (resolution - 1)

\* create_sphere with the cell indices computed for rows of resolution - 1
\* vertices
create_sphere_short_stride(center, radius, resolution) ==
  LET phi(j) == Linspace(360, resolution, j)
      theta(i) == Linspace(180, resolution, i)
      vertex(n) ==
        LET i == n \div resolution
            j == n % resolution
        IN << center[1] + FMul(FMul(radius, SinDeg[theta(i)]), CosDeg[phi(j)]),
              center[2] + FMul(FMul(radius, SinDeg[theta(i)]), SinDeg[phi(j)]),
              center[3] + FMul(radius, CosDeg[theta(i)]) >>
      face(f) ==
        LET cell == f \div 2
            i == cell \div (resolution - 1)
            j == cell % (resolution - 1)
            idx1 == i * (resolution - 1) + j
            idx2 == i * (resolution - 1) + (j + 1)
            idx3 == (i + 1) * (resolution - 1) + j
            idx4 == (i + 1) * (resolution - 1) + (j + 1)
        IN IF f % 2 = 0 THEN <<idx1, idx2, idx3>> ELSE <<idx2, idx4, idx3>>
  IN [vertices |-> [n \in 1..(resolution * resolution) |-> vertex(n - 1)],
      faces |-> [f \in 1..(2 * (resolution - 1) * (resolution - 1)) |-> face(f - 1)]]

\* create_sphere: the vertices in the order of the flattened meshgrid (the
\* row is the polar index, the column the azimuth index) and the faces in
\* the order the two loops append them, with 0-based vertex indices
create_sphere(center, radius, resolution) ==
  LET phi(j) == Linspace(360, resolution, j)
      theta(i) == Linspace(180, resolution, i)
      vertex(n) ==
        LET i == n \div resolution
            j == n % resolution
        IN << center[1] + FMul(FMul(radius, SinDeg[theta(i)]), CosDeg[phi(j)]),
              center[2] + FMul(FMul(radius, SinDeg[theta(i)]), SinDeg[phi(j)]),
              center[3] + FMul(radius, CosDeg[theta(i)]) >>
      face(f) ==
        LET cell == f \div 2
            i == cell \div (resolution - 1)
            j == cell % (resolution - 1)
            idx1 == i * resolution + j
            idx2 == i * resolution + (j + 1)
            idx3 == (i + 1) * resolution + j
            idx4 == (i + 1) * resolution + (j + 1)
        IN IF f % 2 = 0 THEN <<idx1, idx2, idx3>> ELSE <<idx2, idx4, idx3>>
  IN [vertices |-> [n \in 1..(resolution * resolution) |-> vertex(n - 1)],
      faces |-> [f \in 1..(2 * (resolution - 1) * (resolution - 1)) |-> face(f - 1)]]

\* ------------------------------------------------------- atom renderer
SliderMin == 10
SliderMax == 1000
ResetScale == 1000
BondTolerance == 1200
Padding == 100

NoWidgets == [interactive |-> FALSE]
NoView == [by |-> "nothing drawn"]

\* matplotlib.widgets.Slider(valmin, valmax, valinit): valinit is brought
\* into [valmin, valmax]
Slider(valmin, valmax, valinit) ==
  [valmin |-> valmin, valmax |-> valmax,
   val |-> Max2(valmin, Min2(valmax, valinit))]

\* Slider.set_val(val): the value is stored as given
set_val(slider, val) == [slider EXCEPT !.val = val]

\* ''.join(filter(str.isalpha, atom['name']))
element_key(atom) == Join(element_of(atom.name))

\* the keys of element_groups in the order of their insertion
element_groups_keys(as) ==
  LET keys[k \in 0..Len(as)] ==
        IF k = 0 THEN <<>>
        ELSE IF \E m \in 1..Len(keys[k - 1]) : keys[k - 1][m] = element_key(as[k])
        THEN keys[k - 1]
        ELSE Append(keys[k - 1], element_key(as[k]))
  IN keys[Len(as)]

\* element_groups[element], as positions in original_atoms
element_group(as, element) ==
  Ascending({i \in 1..Len(as) : element_key(as[i]) = element})

\* the centre a sphere is drawn at, and the end of a bond: plot_atoms has no
\* lattice and draws at the coordinates of the file, plot_crystal_structure
\* converts them
position(as, lp, i) ==
  IF lp.set
  THEN convert_fractional_to_real(Frac(as[i]), lp).v
  ELSE Frac(as[i])

\* the spheres added by the loop over element_groups.items()
RECURSIVE spheres_of(_, _, _, _)
spheres_of(as, lp, new_scale, keys) ==
  IF keys = <<>> THEN <<>>
  ELSE LET element == Head(keys)
           radius == FMul(get_atomic_radius(element), new_scale)
           color == get_element_color(element)
           group == element_group(as, element)
       IN [k \in 1..Len(group) |->
             [atom |-> group[k], center |-> position(as, lp, group[k]),
              radius |-> radius, color |-> color]]
          \o spheres_of(as, lp, new_scale, Tail(keys))

\* legend_elements
legend_of(new_scale, keys) ==
  [k \in 1..Len(keys) |->
     [element |-> keys[k],
      radius |-> FMul(get_atomic_radius(keys[k]), new_scale),
      color |-> get_element_color(keys[k])]]

\* the two tests of the bond loop, without the test against bond_cutoff
is_bond_no_cutoff(as, lp, a, new_scale, i, j) ==
  LET distance == Distance(position(as, lp, i), position(as, lp, j))
      r1 == FMul(get_atomic_radius(as[i].name), new_scale)
      r2 == FMul(get_atomic_radius(as[j].name), new_scale)
  IN distance <= FMul(BondTolerance, r1 + r2)

\* the two tests of the bond loop
is_bond(as, lp, a, new_scale, i, j) ==
  LET r1 == FMul(get_atomic_radius(as[i].name), new_scale)
      r2 == FMul(get_atomic_radius(as[j].name), new_scale)
  IN Distance(position(as, lp, i), position(as, lp, j))
       <= Min2(a.bond_cutoff, FMul(BondTolerance, r1 + r2))

\* bond_lines: the loop takes atom1 in order and atom2 among the atoms
\* after atom1
bond_line(as, lp, i, j) ==
  [i |-> i, j |-> j, from |-> position(as, lp, i), to |-> position(as, lp, j)]

\* the lines of the pairs in the order the loop meets them, a pair (i, j)
\* being coded as i * (n + 1) + j
bond_lines_in(as, lp, n, order) ==
  [k \in 1..Len(order) |->
     bond_line(as, lp, order[k] \div (n + 1), order[k] % (n + 1))]

bond_lines(as, lp, a, new_scale) ==
  bond_lines_in(as, lp, Len(as),
    Ascending({p[1] * (Len(as) + 1) + p[2] : p \in
       {q \in Pairs(Len(as)) : is_bond(as, lp, a, new_scale, q[1], q[2])}}))

\* update_plot(new_scale): what the axes hold after ax.clear() and the redraw
redrawn(as, lp, a, new_scale, keys, max_radius) ==
     [by |-> "update_plot",
      spheres |-> spheres_of(as, lp, new_scale, keys),
      legend |-> legend_of(new_scale, keys),
      bonds |-> IF a.show_bonds THEN bond_lines(as, lp, a, new_scale) ELSE <<>>,
      title |-> [scale |-> new_scale, auto_scaled |-> a.auto_scale,
                 target_overlap |-> IF a.auto_scale THEN a.target_overlap ELSE 0],
      padding |-> max_radius + Padding,
      info |-> IF a.show_overlap_info
               THEN [shown |-> TRUE, scale |-> new_scale, max_radius |-> max_radius]
               ELSE [shown |-> FALSE, scale |-> 0, max_radius |-> 0]]

update_plot(as, lp, a, new_scale) ==
  redrawn(as, lp, a, new_scale, element_groups_keys(as),
          MaxOf({FMul(get_atomic_radius(as[i].name), new_scale) : i \in 1..Len(as)}))

\* the `if interactive:` block of plot_atoms / plot_crystal_structure
atom_controls(a, scale_factor) ==
  IF a.interactive
  THEN [interactive |-> TRUE,
        scale_slider |-> Slider(SliderMin, SliderMax, scale_factor),
        status |-> [text |-> "Initial scale", val |-> scale_factor]]
  ELSE NoWidgets

\* the heuristic of the running script
optimal_scale_of(as, lp, t) ==
  IF ~lp.set
  THEN calculate_optimal_scale_factor_3D(as, t)
  ELSE calculate_optimal_scale_factor_CS(as, lp, t)

\* -------------------------------------------------- reflection renderer
SizeSliderMin == 1000
SizeSliderMax == 1000000

RangeSliders == {"h_min", "h_max", "k_min", "k_max", "l_min", "l_max"}

\* np.array([x[c] for x in hkl_data]): column c of the tuples; h, k, l are
\* brought to the unit of the slider values they are compared with
original_h(data) == [n \in 1..Len(data) |-> data[n][1] * ONE]
original_k(data) == [n \in 1..Len(data) |-> data[n][2] * ONE]
original_l(data) == [n \in 1..Len(data) |-> data[n][3] * ONE]
original_sizes(data) == [n \in 1..Len(data) |-> data[n][4]]

ColMin(col) == MinOf({col[n] : n \in 1..Len(col)})
ColMax(col) == MaxOf({col[n] : n \in 1..Len(col)})

\* max_size = np.max(sizes)
max_size(data) == ColMax(original_sizes(data))

\* size_factor * (sizes / max_size), for one reflection
marker_size(data, size_factor, n) ==
  FMul(size_factor, FDiv(data[n][4], max_size(data)))

\* a point of a scatter plot coloured by the normalised intensity
marker_normalised(data, size_factor, n) ==
  [index |-> n, h |-> data[n][1], k |-> data[n][2], l |-> data[n][3],
   s |-> marker_size(data, size_factor, n),
   c |-> FDiv(data[n][4], max_size(data))]

\* one point of a scatter plot
marker(data, size_factor, n) ==
  [index |-> n, h |-> data[n][1], k |-> data[n][2], l |-> data[n][3],
   s |-> marker_size(data, size_factor, n), c |-> data[n][4]]

\* ax.scatter of the whole data set with s = initial_sizes
all_scatter(data, initial_size) ==
  [n \in 1..Len(data) |-> marker(data, initial_size, n)]

\* int(size_factor)
IntOf(x) == x \div ONE

\* plot_crystal_structure / plot_reflections up to plt.show(): the scatter
\* plot of all reflections and its colorbar
reflection_plot(data, a) ==
  [by |-> "plot",
   shown |-> all_scatter(data, a.size),
   title |-> [text |-> "size factor", size_factor |-> a.size],
   colorbars |-> 1,
   current_colorbar |-> "colorbar"]

\* the sliders, the toggle button and the status text box
reflection_controls(data, a) ==
  LET h == original_h(data)
      k == original_k(data)
      l == original_l(data)
      sizes == original_sizes(data)
  IN [interactive |-> TRUE,
      h_min |-> Slider(ColMin(h), ColMax(h), ColMin(h)),
      h_max |-> Slider(ColMin(h), ColMax(h), ColMax(h)),
      k_min |-> Slider(ColMin(k), ColMax(k), ColMin(k)),
      k_max |-> Slider(ColMin(k), ColMax(k), ColMax(k)),
      l_min |-> Slider(ColMin(l), ColMax(l), ColMin(l)),
      l_max |-> Slider(ColMin(l), ColMax(l), ColMax(l)),
      intensity |-> Slider(ColMin(sizes), ColMax(sizes), ColMin(sizes)),
      size |-> Slider(SizeSliderMin, SizeSliderMax, a.size),
      toggle_label |-> "Show All",
      status |-> [text |-> "Showing all", val |-> Len(data)]]

\* the mask of update_display with `>` in place of `>=` for the intensity
mask_strict(data, w) ==
  {n \in 1..Len(data) :
     /\ original_h(data)[n] >= w.h_min.val /\ original_h(data)[n] <= w.h_max.val
     /\ original_k(data)[n] >= w.k_min.val /\ original_k(data)[n] <= w.k_max.val
     /\ original_l(data)[n] >= w.l_min.val /\ original_l(data)[n] <= w.l_max.val
     /\ original_sizes(data)[n] > w.intensity.val}

\* mask: the positions of the reflections that pass the filter
mask(data, w) ==
  {n \in 1..Len(data) :
     /\ original_h(data)[n] >= w.h_min.val /\ original_h(data)[n] <= w.h_max.val
     /\ original_k(data)[n] >= w.k_min.val /\ original_k(data)[n] <= w.k_max.val
     /\ original_l(data)[n] >= w.l_min.val /\ original_l(data)[n] <= w.l_max.val
     /\ original_sizes(data)[n] >= w.intensity.val}

\* the colorbar left in place: no current_colorbar.remove()
remove_colorbar_skipped(v) == v.colorbars

\* current_colorbar.remove() under `if current_colorbar is not None`
remove_colorbar(v) ==
  IF v.current_colorbar # "None" THEN v.colorbars - 1 ELSE v.colorbars

\* the two branches of update_display on the filtered positions
display_of(data, w, v, filtered_indices, size_factor) ==
     IF Len(filtered_indices) > 0
     THEN [w |-> [w EXCEPT !.status = [text |-> "Showing",
                                       val |-> Len(filtered_indices)]],
           v |-> [by |-> "update_display",
                  shown |-> [m \in 1..Len(filtered_indices) |->
                               marker(data, size_factor, filtered_indices[m])],
                  title |-> [text |-> "size factor",
                             size_factor |-> IntOf(size_factor) * ONE],
                  colorbars |-> remove_colorbar(v) + 1,
                  current_colorbar |-> "colorbar"]]
     ELSE [w |-> [w EXCEPT !.status = [text |-> "No reflections match criteria",
                                       val |-> 0]],
           v |-> [by |-> "update_display",
                  shown |-> <<>>,
                  title |-> [text |-> "No reflections match criteria",
                             size_factor |-> 0],
                  colorbars |-> remove_colorbar(v),
                  current_colorbar |-> "None"]]

\* update_display(): the widgets and the view after it
update_display(data, a, w, v) ==
  display_of(data, w, v, Ascending(mask(data, w)), w.size.val)

\* the redraw with all data of toggle_visibility and clear_filter
show_all(data, a, w, v, by) ==
  [w |-> [w EXCEPT !.status = [text |-> "Showing all", val |-> Len(data)]],
   v |-> [by |-> by,
          shown |-> all_scatter(data, a.size),
          title |-> [text |-> "size factor", size_factor |-> a.size],
          colorbars |-> remove_colorbar(v) + 1,
          current_colorbar |-> "colorbar"]]

\* slider.set_val(val) of a slider of the reflection renderer: the value is
\* stored and the on_changed callback runs update_display
slider_set_val(data, a, wv, name, val) ==
  update_display(data, a, [wv.w EXCEPT ![name] = set_val(@, val)], wv.v)

\* toggle_visibility(event)
toggle_visibility(data, a, w, v) ==
  IF w.toggle_label = "Show All"
  THEN update_display(data, a, [w EXCEPT !.toggle_label = "Show Filtered"], v)
  ELSE show_all(data, a, [w EXCEPT !.toggle_label = "Show All"], v,
                "toggle_visibility")

\* reset_ranges(event): seven calls of set_val in turn
reset_ranges(data, a, w, v) ==
  slider_set_val(data, a,
    slider_set_val(data, a,
      slider_set_val(data, a,
        slider_set_val(data, a,
          slider_set_val(data, a,
            slider_set_val(data, a,
              slider_set_val(data, a, [w |-> w, v |-> v],
                             "h_min", w.h_min.valmin),
              "h_max", w.h_max.valmax),
            "k_min", w.k_min.valmin),
          "k_max", w.k_max.valmax),
        "l_min", w.l_min.valmin),
      "l_max", w.l_max.valmax),
    "intensity", w.intensity.valmin)

\* size_slider.set_val(initial_size), wv being the widgets and the view
reset_size_from(data, a, wv) == slider_set_val(data, a, wv, "size", a.size)

\* reset_size(event)
reset_size(data, a, w, v) == reset_size_from(data, a, [w |-> w, v |-> v])

\* the end of clear_filter: the button label and the plot of all data
clear_filter_from(data, a, wv) ==
  show_all(data, a, [wv.w EXCEPT !.toggle_label = "Show All"], wv.v,
           "clear_filter")

\* clear_filter without its call of reset_size
clear_filter_size_kept(data, a, w, v) ==
  clear_filter_from(data, a, reset_ranges(data, a, w, v))

\* clear_filter(event): reset_ranges(None), reset_size(None), then all data
clear_filter(data, a, w, v) ==
  clear_filter_from(data, a, reset_size_from(data, a, reset_ranges(data, a, w, v)))

\* the handler of set_preset_size(factor)
set_preset_size(data, a, w, v, factor) ==
  slider_set_val(data, a, [w |-> w, v |-> v], "size", factor * max_size(data))

\* plot_crystal.py: the size slider is the only control
size_controls(a) ==
  [interactive |-> TRUE,
   size |-> Slider(SizeSliderMin, SizeSliderMax, a.size),
   valinit |-> Slider(SizeSliderMin, SizeSliderMax, a.size).val]

\* plot_crystal.py, update_size(val): scatter.set_sizes and title.set_text
update_size(data, v, val) ==
  [v EXCEPT !.by = "update_size",
            !.shown = [n \in 1..Len(data) |-> marker(data, val, n)],
            !.title = [text |-> "size factor", size_factor |-> IntOf(val) * ONE]]

\* ------------------------------------------------------------- state
VARIABLES
  script,          \* which script's main runs, and its --mode
  pc,              \* position of the run
  file,            \* the lines read from the input file so far
  atoms,           \* read_crystal_structure: atoms
  lattice_params,  \* read_crystal_structure: lattice_params
  reading_atoms,   \* read_crystal_structure: reading_atoms
  hkl_data,        \* read_hkl_file: hkl_data
  found_header,    \* read_hkl_file: found_header
  exc,             \* the exception in flight, NoExc if none
  out,             \* what the run printed
  exit,            \* how main ended
  plotted,         \* the calls of the plot functions
  args,            \* the command-line arguments the plot call uses
  current_scale,   \* plot_atoms / plot_crystal_structure: current_scale
  result,          \* what calculate_optimal_scale_factor returned
  widgets,         \* the sliders, the button labels and the status text box
  view             \* what the axes show after the last redraw

vars == <<script, pc, file, atoms, lattice_params, reading_atoms, hkl_data,
          found_header, exc, out, exit, plotted, args, current_scale, result,
          widgets, view>>

Scripts == {"crystal3D.atoms", "crystal3D.reflections", "crystal_structure",
            "hkl_reflections", "plot_crystal"}
AtomScripts == {"crystal3D.atoms", "crystal_structure"}
HklScripts == Scripts \ AtomScripts
\* the scripts whose main wraps reading and plotting in try/except Exception
HandlerScripts == {"crystal3D.atoms", "crystal3D.reflections",
                   "hkl_reflections", "plot_crystal"}
\* the scripts whose main leaves through sys.exit(1)
SysExitScripts == {"hkl_reflections", "plot_crystal"}

DefaultSize == 50000
DefaultCutoff == 2500
DefaultOverlap == 100

\* the defaults of the argument parser
DefaultArgs == [scale |-> ONE, auto_scale |-> FALSE,
                show_overlap_info |-> TRUE, target_overlap |-> DefaultOverlap,
                show_bonds |-> FALSE, bond_cutoff |-> DefaultCutoff,
                interactive |-> FALSE, size |-> DefaultSize]
\* the command lines of a run that reads a file
ArgSet == [scale : {ONE}, auto_scale : BOOLEAN,
           show_overlap_info : BOOLEAN, target_overlap : {DefaultOverlap},
           show_bonds : {FALSE}, bond_cutoff : {DefaultCutoff},
           interactive : {FALSE}, size : {DefaultSize}]
NoResult == [exc |-> NoExc, scale |-> 0, analysis |-> EmptyDict]

ReaderState ==
  [atoms |-> atoms, lattice_params |-> lattice_params,
   reading_atoms |-> reading_atoms, hkl_data |-> hkl_data,
   found_header |-> found_header, exc |-> NoExc, out |-> out]

\* the reader the main of script s calls, one line at a time
reader_of(s, st, line) ==
  CASE s = "crystal3D.atoms" -> read_crystal_structure_3D_line(st, line)
    [] s = "crystal_structure" -> read_crystal_structure_CS_line(st, line)
    [] s = "crystal3D.reflections" -> read_hkl_reflections_line(st, line)
    [] s = "hkl_reflections" -> read_hkl_file_line(st, line)
    [] s = "plot_crystal" -> plot_crystal_read_hkl_file_line(st, line)

\* the reader of the running script
reader_line(st, line) == reader_of(script, st, line)

Records == IF script \in AtomScripts THEN atoms ELSE hkl_data

\* main without the test for an empty result
HasData_always == TRUE

\* main: the negation of `if not atoms:` / `if not hkl_data:`
HasData == Records # <<>>

\* an exception is propagating to main
RaisedPcs == {"read_raised", "plot_raised"}

Init ==
  /\ script \in Scripts
  /\ pc = "main"
  /\ file = <<>>
  /\ atoms = <<>>
  /\ lattice_params = NoLattice
  /\ reading_atoms = FALSE
  /\ hkl_data = <<>>
  /\ found_header = FALSE
  /\ exc = NoExc
  /\ out = <<>>
  /\ exit = "running"
  /\ plotted = <<>>
  /\ args = DefaultArgs
  /\ current_scale = ONE
  /\ result = NoResult
  /\ widgets = NoWidgets
  /\ view = NoView

\* with open(filename, 'r') as f
main_open_file ==
  /\ pc = "main"
  /\ \E exists \in BOOLEAN :
       IF exists
       THEN pc' = "reading" /\ exc' = exc
       ELSE pc' = "read_raised" /\ exc' = "FileNotFoundError"
  /\ UNCHANGED <<widgets, view, script, file, atoms, lattice_params, reading_atoms, hkl_data,
                 found_header, out, exit, plotted, args, current_scale, result>>

\* one iteration of `for line in f`
read_line ==
  /\ pc = "reading"
  /\ Len(file) < MaxLines
  /\ \E line \in LineSet :
       LET st == reader_line(ReaderState, line) IN
       /\ file' = Append(file, line)
       /\ atoms' = st.atoms
       /\ lattice_params' = st.lattice_params
       /\ reading_atoms' = st.reading_atoms
       /\ hkl_data' = st.hkl_data
       /\ found_header' = st.found_header
       /\ out' = st.out
       /\ exc' = st.exc
       /\ pc' = IF st.exc # NoExc THEN "read_raised" ELSE "reading"
  /\ UNCHANGED <<widgets, view, script, exit, plotted, args, current_scale, result>>

\* end of file: the reader returns
read_eof ==
  /\ pc = "reading"
  /\ LET st == IF script = "crystal_structure"
               THEN read_crystal_structure_CS_end(ReaderState)
               ELSE ReaderState IN
       /\ lattice_params' = st.lattice_params
       /\ out' = st.out
  /\ pc' = "read_done"
  /\ UNCHANGED <<widgets, view, script, file, atoms, reading_atoms, hkl_data, found_header,
                 exc, exit, plotted, args, current_scale, result>>

NoDataMessage ==
  CASE script = "crystal3D.atoms" -> <<"No atom data found in the file or incorrect format.">>
    [] script = "crystal3D.reflections" -> <<"No reflection data found in the file or incorrect format.">>
    [] script = "crystal_structure" -> <<"Error: No atomic data found in the file.">>
    [] OTHER -> <<"No data found in the file or incorrect format.">>

\* main: `if not atoms:` / `if not hkl_data:`
main_no_data ==
  /\ pc = "read_done"
  /\ ~HasData
  /\ out' = Append(out, NoDataMessage)
  /\ exit' = IF script \in SysExitScripts THEN "sys.exit(1)" ELSE "return"
  /\ pc' = "done"
  /\ UNCHANGED <<widgets, view, script, file, atoms, lattice_params, reading_atoms, hkl_data,
                 found_header, exc, plotted, args, current_scale, result>>

\* crystal_structure.print_atomic_info: the exception it raises, if any
print_atomic_info_exc ==
  LET bad == {i \in 1..Len(atoms) :
                convert_fractional_to_real(Frac(atoms[i]), lattice_params).exc # NoExc}
  IN IF bad = {} THEN NoExc
     ELSE convert_fractional_to_real(Frac(atoms[MinOf(bad)]), lattice_params).exc

PlotFunction ==
  CASE script = "crystal3D.atoms" -> "plot_atoms"
    [] script = "crystal3D.reflections" -> "plot_reflections"
    [] OTHER -> "plot_crystal_structure"

\* plot_atoms / plot_crystal_structure, `if auto_scale:` block
auto_scale_with(a, r) ==
     IF ~a.auto_scale
     THEN [exc |-> NoExc, scale |-> a.scale, result |-> result, out |-> <<>>]
     ELSE IF r.exc # NoExc
     THEN [exc |-> r.exc, scale |-> a.scale, result |-> result, out |-> <<>>]
     ELSE IF a.show_overlap_info /\ "min_distance" \notin DOMAIN r.analysis
     THEN [exc |-> "KeyError", scale |-> a.scale, result |-> r,
           out |-> << <<"Overlap Analysis:">> >>]
     ELSE [exc |-> NoExc, scale |-> r.scale, result |-> r,
           out |-> (IF a.show_overlap_info THEN << <<"Overlap Analysis:">> >> ELSE <<>>)
                   \o << <<"Using auto-calculated scale factor">> >>]

\* the call of calculate_optimal_scale_factor and what the block does
\* with its result
auto_scale_block(a) ==
  auto_scale_with(a,
    IF script = "crystal3D.atoms"
    THEN calculate_optimal_scale_factor_3D(atoms, a.target_overlap)
    ELSE calculate_optimal_scale_factor_CS(atoms, lattice_params, a.target_overlap))

\* the controls the plot function of the running script creates
controls_of(a, scale_factor) ==
  CASE script \in AtomScripts -> atom_controls(a, scale_factor)
    [] script = "plot_crystal" -> size_controls(a)
    [] OTHER -> reflection_controls(hkl_data, a)

\* main from the test of the reader's result to plt.show(), with the
\* arguments a: info_exc is the exception of print_atomic_info
\* (crystal_structure), blk the outcome of the `if auto_scale:` block; then
\* the initial draw and the controls
plot_from(a, toolkit_fails, info_exc, blk) ==
  IF script = "crystal_structure" /\ info_exc # NoExc
  THEN /\ exc' = info_exc
       /\ pc' = "plot_raised"
       /\ UNCHANGED <<plotted, current_scale, result, out, widgets, view>>
  ELSE LET info == IF script = "crystal_structure"
                   THEN << <<"Crystal Structure Analysis:">> >> ELSE <<>>
           \* max() of an empty sequence raises ValueError in the first draw
           empty == Records = <<>>
           failed == blk.exc # NoExc \/ empty \/ toolkit_fails
       IN /\ plotted' = Append(plotted, [fn |-> PlotFunction, n |-> Len(Records)])
          /\ out' = out \o info \o blk.out
          /\ result' = blk.result
          /\ current_scale' = IF blk.exc = NoExc THEN blk.scale ELSE current_scale
          /\ exc' = IF blk.exc # NoExc THEN blk.exc
                    ELSE IF empty THEN "ValueError"
                    ELSE IF toolkit_fails THEN "RuntimeError" ELSE NoExc
          /\ pc' = IF failed THEN "plot_raised" ELSE "shown"
          /\ view' = IF failed THEN view
                     ELSE IF script \in AtomScripts
                     THEN update_plot(atoms, lattice_params, a, blk.scale)
                     ELSE reflection_plot(hkl_data, a)
          /\ widgets' = IF failed THEN widgets ELSE controls_of(a, blk.scale)

\* the same, print_atomic_info and the `if auto_scale:` block being
\* evaluated on the parsed data
plot_with(a, toolkit_fails) ==
  plot_from(a, toolkit_fails, print_atomic_info_exc,
            IF script \in AtomScripts THEN auto_scale_block(a)
            ELSE [exc |-> NoExc, scale |-> current_scale,
                  result |-> result, out |-> <<>>])

\* main: the call of the plot function, up to plt.show()
main_plot ==
  /\ pc = "read_done"
  /\ HasData
  /\ \E a \in ArgSet, toolkit_fails \in BOOLEAN :
       /\ args' = a
       /\ plot_with(a, toolkit_fails)
  /\ UNCHANGED <<script, file, atoms, lattice_params, reading_atoms, hkl_data,
                 found_header, exit>>

\* the window is closed: plt.show() and the plot function return
main_return ==
  /\ pc = "shown"
  /\ pc' = "done"
  /\ exit' = "return"
  /\ UNCHANGED <<widgets, view, script, file, atoms, lattice_params, reading_atoms, hkl_data,
                 found_header, exc, out, plotted, args, current_scale, result>>

\* main: `except Exception as e:`
main_except ==
  /\ pc \in RaisedPcs
  /\ script \in HandlerScripts
  /\ out' = Append(out, <<"Error:", exc>>)
  /\ exc' = NoExc
  /\ exit' = IF script \in SysExitScripts THEN "sys.exit(1)" ELSE "return"
  /\ pc' = "done"
  /\ UNCHANGED <<widgets, view, script, file, atoms, lattice_params, reading_atoms, hkl_data,
                 found_header, plotted, args, current_scale, result>>

\* crystal_structure.main has no try: the exception leaves main
main_uncaught ==
  /\ pc \in RaisedPcs
  /\ script \notin HandlerScripts
  /\ exit' = "traceback"
  /\ pc' = "done"
  /\ UNCHANGED <<widgets, view, script, file, atoms, lattice_params, reading_atoms, hkl_data,
                 found_header, exc, out, plotted, args, current_scale, result>>

Next ==
  \/ main_open_file
  \/ read_line
  \/ read_eof
  \/ main_no_data
  \/ main_plot
  \/ main_return
  \/ main_except
  \/ main_uncaught

Spec == Init /\ [][Next]_vars

\* ------------------------------------ the scale heuristic on its own
Atom(name, x, y, z) ==
  [name |-> name, x |-> x, y |-> y, z |-> z,
   B |-> 500, occ |-> ONE, spin |-> 0, charge |-> 0]

\* atoms as the readers produce them: two coincident sites when an atom is
\* taken twice, two sites 0.004 apart, two hydrogens a cell edge apart
AtomPool ==
  { Atom("Fe1", 500, 0, 0), Atom("Fe2", 504, 0, 0), Atom("O1", 0, 500, 250),
    Atom("H1", 0, 0, 0), Atom("H2", ONE, 0, 0) }

Lattice(a, b, c, alpha, beta, gamma) ==
  [set |-> TRUE, a |-> a, b |-> b, c |-> c,
   alpha |-> alpha * ONE, beta |-> beta * ONE, gamma |-> gamma * ONE]

\* the default cell, a hexagonal cell, and a cell of volume 0
LatticeSet ==
  { DefaultLattice, Lattice(4 * ONE, 4 * ONE, 2 * ONE, 90, 90, 120),
    Lattice(0, ONE, ONE, 90, 90, 90) }

OverlapSet == {0 - 500, 0, 100, ONE, 1500}

SeqsUpTo(S, n) == UNION {[1..k -> S] : k \in 0..n}

\* the sequences of SeqsUpTo(S, n) that list no element twice
DistinctSeqs(S, n) ==
  {q \in SeqsUpTo(S, n) : \A i, j \in 1..Len(q) : q[i] = q[j] => i = j}

InitScale ==
  /\ script \in AtomScripts
  /\ pc = "scale_call"
  /\ file = <<>>
  /\ atoms \in SeqsUpTo(AtomPool, MaxAtoms)
  /\ lattice_params \in LatticeSet
  /\ reading_atoms = FALSE
  /\ hkl_data = <<>>
  /\ found_header = FALSE
  /\ exc = NoExc
  /\ out = <<>>
  /\ exit = "running"
  /\ plotted = <<>>
  /\ args \in [scale : {ONE}, auto_scale : {TRUE},
               show_overlap_info : {TRUE}, target_overlap : OverlapSet,
               show_bonds : {FALSE}, bond_cutoff : {DefaultCutoff},
               interactive : {FALSE}, size : {DefaultSize}]
  /\ current_scale = ONE
  /\ result = NoResult
  /\ widgets = NoWidgets
  /\ view = NoView

\* calculate_optimal_scale_factor(atoms, target_overlap) of crystal3D
call_scale_3D ==
  /\ pc = "scale_call"
  /\ script = "crystal3D.atoms"
  /\ result' = calculate_optimal_scale_factor_3D(atoms, args.target_overlap)
  /\ exc' = result'.exc
  /\ pc' = IF result'.exc = NoExc THEN "scale_return" ELSE "scale_raised"
  /\ UNCHANGED <<widgets, view, script, file, atoms, lattice_params, reading_atoms, hkl_data,
                 found_header, out, exit, plotted, args, current_scale>>

\* calculate_optimal_scale_factor(atoms, lattice_params, target_overlap) of
\* crystal_structure
call_scale_CS ==
  /\ pc = "scale_call"
  /\ script = "crystal_structure"
  /\ result' = calculate_optimal_scale_factor_CS(atoms, lattice_params,
                                                 args.target_overlap)
  /\ exc' = result'.exc
  /\ pc' = IF result'.exc = NoExc THEN "scale_return" ELSE "scale_raised"
  /\ UNCHANGED <<widgets, view, script, file, atoms, lattice_params, reading_atoms, hkl_data,
                 found_header, out, exit, plotted, args, current_scale>>

NextScale == call_scale_3D \/ call_scale_CS

SpecScale == InitScale /\ [][NextScale]_vars

\* ------------------------------------------- the renderers on their own
MaxDrawn == 2        \* atoms handed to an atom renderer
MaxShown == 2        \* reflections handed to a reflection renderer

FilterScripts == {"crystal3D.reflections", "hkl_reflections"}

\* reflections as the readers produce them
ReflectionFile ==
  << <<1, 0, 0 - 1, 10500>>, <<0, 2, 1, 500>>, <<2, 0, 0, 3500>> >>

ReflectionPool == {ReflectionFile[n] : n \in 1..Len(ReflectionFile)}

\* the listings of at most n lines of ReflectionFile, in the file's order
Listings(n) ==
  {q \in SeqsUpTo(ReflectionPool, n) :
     \E at \in [1..Len(q) -> 1..Len(ReflectionFile)] :
        /\ \A i \in 1..Len(q) : q[i] = ReflectionFile[at[i]]
        /\ \A i, j \in 1..Len(q) : i < j => at[i] < at[j]}

\* cells print_atomic_info accepts: the default cell and a hexagonal cell
RenderLattices ==
  { DefaultLattice, Lattice(4 * ONE, 4 * ONE, 2 * ONE, 90, 90, 120) }

\* command lines of the atom scripts and of the reflection scripts
RenderArgs ==
  IF script \in AtomScripts
  THEN {a \in [scale : {ONE, 2 * ONE}, auto_scale : BOOLEAN,
                show_overlap_info : BOOLEAN, target_overlap : {DefaultOverlap},
                show_bonds : BOOLEAN, bond_cutoff : {DefaultCutoff, 400},
                interactive : BOOLEAN, size : {DefaultSize}] :
          /\ a.show_bonds \/ a.bond_cutoff = DefaultCutoff
          /\ a.auto_scale => a.scale = ONE}
  ELSE [scale : {ONE}, auto_scale : {FALSE},
        show_overlap_info : {TRUE}, target_overlap : {DefaultOverlap},
        show_bonds : {FALSE}, bond_cutoff : {DefaultCutoff},
        interactive : {FALSE}, size : {DefaultSize, 1200 * ONE}]

\* main has read the file and is about to call the plot function
InitRender ==
  /\ script \in Scripts
  /\ pc = "plot_call"
  /\ file = <<>>
  /\ atoms \in IF script \in AtomScripts
               THEN DistinctSeqs(AtomPool, MaxDrawn) \ {<<>>} ELSE {<<>>}
  /\ lattice_params \in IF script = "crystal_structure"
                        THEN RenderLattices ELSE {NoLattice}
  /\ reading_atoms = (script \in AtomScripts)
  /\ hkl_data \in IF script \in HklScripts
                  THEN Listings(MaxShown) \ {<<>>} ELSE {<<>>}
  /\ found_header = (script \in HklScripts)
  /\ exc = NoExc
  /\ out = <<>>
  /\ exit = "running"
  /\ plotted = <<>>
  /\ args \in RenderArgs
  /\ current_scale = ONE
  /\ result = NoResult
  /\ widgets = NoWidgets
  /\ view = NoView

\* the call of the plot function with the arguments of the command line
call_plot ==
  /\ pc = "plot_call"
  /\ plot_with(args, FALSE)
  /\ UNCHANGED <<script, file, atoms, lattice_params, reading_atoms, hkl_data,
                 found_header, exit, args>>

\* the values a drag of the scale slider delivers
ScaleDragValues == {SliderMin, 500, SliderMax}

\* scale_slider.set_val(val): the slider stores val and on_scale_change(val)
\* runs update_plot(val) and sets the status
scale_slider_set_val(val) ==
  /\ widgets' = [widgets EXCEPT !.scale_slider = set_val(@, val),
                                !.status = [text |-> "Scale", val |-> val]]
  /\ current_scale' = val
  /\ view' = update_plot(atoms, lattice_params, args, val)

AtomEvents == pc = "shown" /\ script \in AtomScripts /\ widgets.interactive

\* scale_slider.set_val(val) in a button handler, then its
\* status_text.set_text
set_scale(val, text) ==
  /\ current_scale' = val
  /\ view' = update_plot(atoms, lattice_params, args, val)
  /\ widgets' = [widgets EXCEPT !.scale_slider = set_val(@, val),
                                !.status = [text |-> text, val |-> val]]

\* the user drags the scale slider: on_scale_change(val)
on_scale_change ==
  /\ AtomEvents
  /\ \E val \in ScaleDragValues : scale_slider_set_val(val)
  /\ UNCHANGED <<script, pc, file, atoms, lattice_params, reading_atoms,
                 hkl_data, found_header, exc, out, exit, plotted, args, result>>

\* on_reset_click(event)
on_reset_click ==
  /\ AtomEvents
  /\ set_scale(ResetScale, "Reset to 1.0x")
  /\ UNCHANGED <<script, pc, file, atoms, lattice_params, reading_atoms,
                 hkl_data, found_header, exc, out, exit, plotted, args, result>>

\* on_auto_click(event)
on_auto_click ==
  /\ AtomEvents
  /\ IF args.auto_scale
     THEN set_scale(optimal_scale_of(atoms, lattice_params,
                                     args.target_overlap).scale, "Auto-scaled")
     ELSE /\ widgets' = [widgets EXCEPT !.status = [text |-> "Auto-scale not enabled",
                                                    val |-> 0]]
          /\ UNCHANGED <<current_scale, view>>
  /\ UNCHANGED <<script, pc, file, atoms, lattice_params, reading_atoms,
                 hkl_data, found_header, exc, out, exit, plotted, args, result>>

\* on_optimal_click(event)
on_optimal_click ==
  /\ AtomEvents
  /\ set_scale(optimal_scale_of(atoms, lattice_params, 0).scale,
               "Optimal (no overlap)")
  /\ UNCHANGED <<script, pc, file, atoms, lattice_params, reading_atoms,
                 hkl_data, found_header, exc, out, exit, plotted, args, result>>

FilterEvents == pc = "shown" /\ script \in FilterScripts

\* the widgets and the view a handler of the reflection renderer leaves
handler_leaves(r) == widgets' = r.w /\ view' = r.v

\* the values a drag of a slider of the reflection renderer delivers
DragValues(name) ==
  LET s == widgets[name] IN
  CASE name = "intensity" -> {s.valmin, (s.valmin + s.valmax) \div 2}
    [] name = "size" -> {s.valmin, 100 * ONE}
    [] OTHER -> {s.valmin, s.valmax}

\* the user drags one of the eight sliders: its on_changed callback
on_changed ==
  /\ FilterEvents
  /\ \E name \in RangeSliders \union {"intensity", "size"} :
       \E val \in DragValues(name) :
          handler_leaves(slider_set_val(hkl_data, args, [w |-> widgets, v |-> view],
                                  name, val))
  /\ UNCHANGED <<script, pc, file, atoms, lattice_params, reading_atoms, hkl_data,
                 found_header, exc, out, exit, plotted, args, current_scale, result>>

\* a click on the toggle button
toggle_click ==
  /\ FilterEvents
  /\ handler_leaves(toggle_visibility(hkl_data, args, widgets, view))
  /\ UNCHANGED <<script, pc, file, atoms, lattice_params, reading_atoms, hkl_data,
                 found_header, exc, out, exit, plotted, args, current_scale, result>>

\* a click on 'Reset Ranges'
reset_ranges_click ==
  /\ FilterEvents
  /\ handler_leaves(reset_ranges(hkl_data, args, widgets, view))
  /\ UNCHANGED <<script, pc, file, atoms, lattice_params, reading_atoms, hkl_data,
                 found_header, exc, out, exit, plotted, args, current_scale, result>>

\* a click on 'Reset Size'
reset_size_click ==
  /\ FilterEvents
  /\ handler_leaves(reset_size(hkl_data, args, widgets, view))
  /\ UNCHANGED <<script, pc, file, atoms, lattice_params, reading_atoms, hkl_data,
                 found_header, exc, out, exit, plotted, args, current_scale, result>>

\* a click on 'Clear Filter'
clear_filter_click ==
  /\ FilterEvents
  /\ handler_leaves(clear_filter(hkl_data, args, widgets, view))
  /\ UNCHANGED <<script, pc, file, atoms, lattice_params, reading_atoms, hkl_data,
                 found_header, exc, out, exit, plotted, args, current_scale, result>>

PresetFactors == {2, 3, 5}

\* a click on '2x Max', '3x Max' or '5x Max'
preset_click ==
  /\ FilterEvents
  /\ \E factor \in PresetFactors :
       handler_leaves(set_preset_size(hkl_data, args, widgets, view, factor))
  /\ UNCHANGED <<script, pc, file, atoms, lattice_params, reading_atoms, hkl_data,
                 found_header, exc, out, exit, plotted, args, current_scale, result>>

SizeEvents == pc = "shown" /\ script = "plot_crystal"

\* plot_crystal.py: size_slider.set_val(val) and its callback update_size
size_slider_set_val(val) ==
  /\ widgets' = [widgets EXCEPT !.size = set_val(@, val)]
  /\ view' = update_size(hkl_data, view, val)

\* plot_crystal.py: the user drags the size slider
size_changed ==
  /\ SizeEvents
  /\ \E val \in {SizeSliderMin, 100 * ONE, SizeSliderMax} : size_slider_set_val(val)
  /\ UNCHANGED <<script, pc, file, atoms, lattice_params, reading_atoms, hkl_data,
                 found_header, exc, out, exit, plotted, args, current_scale, result>>

\* plot_crystal.py: reset_size(event), size_slider.reset()
size_reset_click ==
  /\ SizeEvents
  /\ IF widgets.size.val # widgets.valinit
     THEN size_slider_set_val(widgets.valinit)
     ELSE UNCHANGED <<widgets, view>>
  /\ UNCHANGED <<script, pc, file, atoms, lattice_params, reading_atoms, hkl_data,
                 found_header, exc, out, exit, plotted, args, current_scale, result>>

\* plot_crystal.py: a click on a preset button
size_preset_click ==
  /\ SizeEvents
  /\ \E factor \in PresetFactors : size_slider_set_val(factor * max_size(hkl_data))
  /\ UNCHANGED <<script, pc, file, atoms, lattice_params, reading_atoms, hkl_data,
                 found_header, exc, out, exit, plotted, args, current_scale, result>>

NextRender ==
  \/ call_plot
  \/ on_scale_change
  \/ on_reset_click
  \/ on_auto_click
  \/ on_optimal_click
  \/ on_changed
  \/ toggle_click
  \/ reset_ranges_click
  \/ reset_size_click
  \/ clear_filter_click
  \/ preset_click
  \/ size_changed
  \/ size_reset_click
  \/ size_preset_click
  \/ main_return
  \/ main_except
  \/ main_uncaught

SpecRender == InitRender /\ [][NextRender]_vars

\* ----------------------------------- the element lookups on their own
\* atoms named by every label of the table of names
NamedAtoms == {Atom(name, 0, 0, 0) : name \in DOMAIN Chars}

MaxNamed == 2        \* atoms handed to the grouping loop

InitNames ==
  /\ script \in AtomScripts
  /\ pc = "names_call"
  /\ file = <<>>
  /\ atoms \in SeqsUpTo(NamedAtoms, MaxNamed) \ {<<>>}
  /\ lattice_params = NoLattice
  /\ reading_atoms = TRUE
  /\ hkl_data = <<>>
  /\ found_header = FALSE
  /\ exc = NoExc
  /\ out = <<>>
  /\ exit = "running"
  /\ plotted = <<>>
  /\ args = DefaultArgs
  /\ current_scale = ONE
  /\ result = NoResult
  /\ widgets = NoWidgets
  /\ view = NoView

\* get_atomic_radius(atoms[0]['name'])
call_get_atomic_radius ==
  /\ pc = "names_call"
  /\ result' = [fn |-> "get_atomic_radius", radius |-> get_atomic_radius(atoms[1].name)]
  /\ pc' = "names_return"
  /\ UNCHANGED <<script, file, atoms, lattice_params, reading_atoms, hkl_data,
                 found_header, exc, out, exit, plotted, args, current_scale,
                 widgets, view>>

\* get_element_color(atoms[0]['name'])
call_get_element_color ==
  /\ pc = "names_call"
  /\ result' = [fn |-> "get_element_color", color |-> get_element_color(atoms[1].name)]
  /\ pc' = "names_return"
  /\ UNCHANGED <<script, file, atoms, lattice_params, reading_atoms, hkl_data,
                 found_header, exc, out, exit, plotted, args, current_scale,
                 widgets, view>>

\* the grouping loop of update_plot over the atoms
call_element_groups ==
  /\ pc = "names_call"
  /\ result' = [fn |-> "element_groups",
                keys |-> element_groups_keys(atoms),
                groups |-> [k \in 1..Len(element_groups_keys(atoms)) |->
                              element_group(atoms, element_groups_keys(atoms)[k])]]
  /\ pc' = "names_return"
  /\ UNCHANGED <<script, file, atoms, lattice_params, reading_atoms, hkl_data,
                 found_header, exc, out, exit, plotted, args, current_scale,
                 widgets, view>>

NextNames ==
  \/ call_get_atomic_radius
  \/ call_get_element_color
  \/ call_element_groups

SpecNames == InitNames /\ [][NextNames]_vars

\* -------------------------------------- the sphere mesh on its own
MaxResolution == 4   \* the largest resolution create_sphere is called with

SphereCenters == { <<0, 0, 0>>, <<500, 0, 250>>, <<0 - ONE, 2 * ONE, 0>>, <<4, 4, 4>> }
SphereRadii == {0, 310, 1260, 2 * ONE}

InitSphere ==
  /\ script \in AtomScripts
  /\ pc = "sphere_call"
  /\ file = <<>>
  /\ atoms = <<>>
  /\ lattice_params = NoLattice
  /\ reading_atoms = FALSE
  /\ hkl_data = <<>>
  /\ found_header = FALSE
  /\ exc = NoExc
  /\ out = <<>>
  /\ exit = "running"
  /\ plotted = <<>>
  /\ args \in [center : SphereCenters, radius : SphereRadii,
               resolution : 1..MaxResolution]
  /\ current_scale = ONE
  /\ result = NoResult
  /\ widgets = NoWidgets
  /\ view = NoView

\* create_sphere(center, radius, resolution)
call_create_sphere ==
  /\ pc = "sphere_call"
  /\ result' = create_sphere(args.center, args.radius, args.resolution)
  /\ pc' = "sphere_return"
  /\ UNCHANGED <<script, file, atoms, lattice_params, reading_atoms, hkl_data,
                 found_header, exc, out, exit, plotted, args, current_scale,
                 widgets, view>>

NextSphere == call_create_sphere

SpecSphere == InitSphere /\ [][NextSphere]_vars

\* --------------------------------- the coordinate transform on its own
\* cells of positive volume, cells with a length 0 and a triple of angles no
\* cell has (the argument of math.sqrt is negative); a triple of angles for
\* which that argument is exactly 0 is left out, its outcome being decided
\* by the rounding of the floats
TransformLattices ==
  { DefaultLattice,
    Lattice(4 * ONE, 4 * ONE, 2 * ONE, 90, 90, 120),
    Lattice(2 * ONE, 3500, 4 * ONE, 90, 90, 90),
    Lattice(2 * ONE, 3500, 4 * ONE, 60, 90, 120),
    Lattice(250, 500, ONE, 90, 60, 90),
    Lattice(2 * ONE, 3 * ONE, 4 * ONE, 60, 60, 90),
    Lattice(0, ONE, ONE, 90, 90, 90),
    Lattice(ONE, ONE, 0, 90, 90, 90),
    Lattice(ONE, ONE, ONE, 60, 60, 135) }

FractionalValues == {0, 250, 500, ONE, 0 - 500}
FractionalCoords ==
  { <<0, 0, 0>>, <<ONE, 0, 0>>, <<0, ONE, 0>>, <<0, 0, ONE>> } \union
  { <<x, y, 250>> : x \in FractionalValues, y \in FractionalValues }

InitTransform ==
  /\ script = "crystal_structure"
  /\ pc = "transform_call"
  /\ file = <<>>
  /\ atoms = <<>>
  /\ lattice_params \in TransformLattices
  /\ reading_atoms = FALSE
  /\ hkl_data = <<>>
  /\ found_header = FALSE
  /\ exc = NoExc
  /\ out = <<>>
  /\ exit = "running"
  /\ plotted = <<>>
  /\ args \in [fractional_coords : FractionalCoords]
  /\ current_scale = ONE
  /\ result = NoResult
  /\ widgets = NoWidgets
  /\ view = NoView

\* convert_fractional_to_real(fractional_coords, lattice_params)
call_convert_fractional_to_real ==
  /\ pc = "transform_call"
  /\ result' = convert_fractional_to_real(args.fractional_coords, lattice_params)
  /\ exc' = result'.exc
  /\ pc' = IF result'.exc = NoExc THEN "transform_return" ELSE "transform_raised"
  /\ UNCHANGED <<script, file, atoms, lattice_params, reading_atoms, hkl_data,
                 found_header, out, exit, plotted, args, current_scale,
                 widgets, view>>

NextTransform == call_convert_fractional_to_real

SpecTransform == InitTransform /\ [][NextTransform]_vars

\* ================================================================ claims
LastLine == file[Len(file)]
FileFound == exc # "FileNotFoundError"

NamesOf(as) == [k \in 1..Len(as) |-> as[k].name]

\* ---- C1
\* line i of f, as the claim describes an atom line: it starts (stripped)
\* with '# Atom', has at least 10 fields and comes after a line containing
\* the column-header marker
ClaimedAtomLine(f, i) ==
  /\ StartsWithAtom(Strip(f[i]))
  /\ Len(f[i].toks) >= 10
  /\ \E j \in 1..(i - 1) : Contains(Strip(f[j]), AtomHeader)

\* a header line, as the readers take it: crystal_structure handles a
\* '# CELL' line before it looks for the marker
IsHeaderLine(l) ==
  /\ Contains(Strip(l), AtomHeader)
  /\ ~(script = "crystal_structure" /\ StartsWithCell(Strip(l)))

\* an atom line that is not itself a header line
AcceptedAtomLine(f, i) ==
  /\ StartsWithAtom(Strip(f[i]))
  /\ Len(f[i].toks) >= 10
  /\ ~IsHeaderLine(f[i])
  /\ \E j \in 1..(i - 1) : IsHeaderLine(f[j])

NumericAtomLine(l) == \A n \in 4..10 : IsFloat(l.toks[n])

\* a '# CELL' line of crystal_structure whose parse raises
FailingCellLine(l) ==
  /\ script = "crystal_structure"
  /\ StartsWithCell(Strip(l))
  /\ Len(l.toks) >= 7
  /\ \/ Len(l.toks) < 8
     \/ \E n \in 3..8 : ~IsFloat(l.toks[n])

AtomReadRaises(f, i) ==
  \/ AcceptedAtomLine(f, i) /\ ~NumericAtomLine(f[i])
  \/ FailingCellLine(f[i])

AtomRecordLines(f) == Ascending({i \in 1..Len(f) : AcceptedAtomLine(f, i)})

\* C1 as stated: for every input file read_crystal_structure returns, in
\* file order, one record for each '# Atom' line with at least 10 fields
\* after the first header line, and nothing raises.  (Stated for the files
\* whose '# CELL' lines parse: those lines are the subject of C17.)
C1_AsStated ==
  (/\ script \in AtomScripts /\ pc \in {"read_done", "read_raised"} /\ FileFound
   /\ \A i \in 1..Len(file) : ~FailingCellLine(file[i]))
  => /\ pc = "read_done"
     /\ NamesOf(atoms) =
          [k \in 1..Cardinality({i \in 1..Len(file) : ClaimedAtomLine(file, i)}) |->
             file[Ascending({i \in 1..Len(file) : ClaimedAtomLine(file, i)})[k]].toks[3]]

\* C1 amended: whenever read_crystal_structure has read a prefix of the file
\* without raising, atoms holds, in file order, one record for each line that
\* starts (stripped) with '# Atom', has at least 10 fields, is not itself a
\* header line and comes after a header line; the read raises exactly at the
\* first such line with a non-numeric field 3..9 or, in crystal_structure, at
\* the first '# CELL' line whose parse fails.
C1_AtomRecords ==
  script \in AtomScripts =>
    /\ pc \in {"reading", "read_done"} =>
         /\ \A i \in 1..Len(file) : ~AtomReadRaises(file, i)
         /\ NamesOf(atoms) =
              [k \in 1..Len(AtomRecordLines(file)) |->
                 file[AtomRecordLines(file)[k]].toks[3]]
    /\ (pc = "read_raised" /\ FileFound) =>
         /\ AtomReadRaises(file, Len(file))
         /\ \A i \in 1..(Len(file) - 1) : ~AtomReadRaises(file, i)

\* a read that returned one record from three lines, the first an atom line
\* in front of the header
C1_Witness ==
  /\ script \in AtomScripts
  /\ pc = "read_done"
  /\ Len(file) = 3
  /\ StartsWithAtom(Strip(file[1])) /\ Len(file[1].toks) >= 10
  /\ Len(atoms) = 1

\* ---- C2
\* C2: the record of every accepted atom line has name = field 2 as a string
\* and x, y, z, B, occ, spin, charge = the float parses of fields 3..9;
\* fields beyond the tenth leave no trace in the record.
C2_AtomFields ==
  (script \in AtomScripts /\ pc \in {"reading", "read_done"}) =>
    /\ Len(atoms) = Len(AtomRecordLines(file))
    /\ \A k \in 1..Len(atoms) :
         LET parts == file[AtomRecordLines(file)[k]].toks IN
         atoms[k] = [name |-> parts[3],
                     x |-> FloatTable[parts[4]], y |-> FloatTable[parts[5]],
                     z |-> FloatTable[parts[6]], B |-> FloatTable[parts[7]],
                     occ |-> FloatTable[parts[8]], spin |-> FloatTable[parts[9]],
                     charge |-> FloatTable[parts[10]]]

\* the 11-field line of O1 was read into a record
C2_Witness ==
  /\ script \in AtomScripts
  /\ pc = "read_done"
  /\ \E k \in 1..Len(atoms) :
       /\ atoms[k].name = "O1"
       /\ atoms[k].z = 250
       /\ atoms[k].charge = 0 - ONE

\* ---- C3
IsComment(l) == Len(l.toks) >= 1 /\ l.toks[1] = "#"

\* line i of f, as the claim describes a reflection line
ClaimedHklLine(f, i) ==
  /\ \E j \in 1..(i - 1) : Contains(f[j], HklHeader)
  /\ f[i].toks # <<>>
  /\ ~IsComment(f[i])
  /\ Len(f[i].toks) >= 6

\* a reflection line as the readers take it: the '#' test is on the raw line
AcceptedHklLine(f, i) ==
  /\ \E j \in 1..(i - 1) : Contains(f[j], HklHeader)
  /\ ~Contains(f[i], HklHeader)
  /\ f[i].toks # <<>>
  /\ ~(~f[i].indent /\ f[i].toks[1] = "#")
  /\ Len(f[i].toks) >= 6

NumericHklLine(l) ==
  /\ \A n \in 1..3 : IsInt(l.toks[n])
  /\ IsFloat(l.toks[6])

HklRecordLines(f) == Ascending({i \in 1..Len(f) : AcceptedHklLine(f, i)})

\* C3 as stated: for every input file the reflection reader returns one
\* tuple for each non-blank, non-comment line with at least 6 fields after
\* the header, and nothing raises.  (Stated for the files without an
\* indented comment line: those lines are the subject of C24.)
C3_AsStated ==
  (/\ script \in HklScripts /\ pc \in {"read_done", "read_raised"} /\ FileFound
   /\ \A i \in 1..Len(file) : ~(file[i].indent /\ IsComment(file[i])))
  => /\ pc = "read_done"
     /\ Len(hkl_data) = Cardinality({i \in 1..Len(file) : ClaimedHklLine(file, i)})

\* C3 amended: whenever the reflection reader has read a prefix of the file
\* without raising, hkl_data holds, in file order, the tuple (int of fields
\* 0..2, float of field 5) of each line after the header that is non-blank,
\* does not contain the header marker, does not have '#' as its first
\* character (indentation counted) and has at least 6 fields; the read raises
\* ValueError exactly at the first such line whose fields do not parse.
C3_HklRecords ==
  script \in HklScripts =>
    /\ pc \in {"reading", "read_done"} =>
         /\ \A i \in 1..Len(file) : AcceptedHklLine(file, i) => NumericHklLine(file[i])
         /\ hkl_data =
              [k \in 1..Len(HklRecordLines(file)) |->
                 LET values == file[HklRecordLines(file)[k]].toks IN
                 <<IntTable[values[1]], IntTable[values[2]], IntTable[values[3]],
                   FloatTable[values[6]]>>]
    /\ (pc = "read_raised" /\ FileFound) =>
         /\ AcceptedHklLine(file, Len(file)) /\ ~NumericHklLine(LastLine)
         /\ exc = "ValueError"
         /\ \A i \in 1..(Len(file) - 1) :
              AcceptedHklLine(file, i) => NumericHklLine(file[i])

\* header, a valid line and a 4-field line gave exactly one tuple
C3_Witness ==
  /\ script \in HklScripts
  /\ pc = "read_done"
  /\ Len(file) = 3
  /\ Len(file[3].toks) = 4
  /\ hkl_data = << <<1, 0, 0 - 1, 10500>> >>

\* ---- C4
\* the line just read is an atom / reflection line in the records section
CandidateLine(l) ==
  IF script \in AtomScripts
  THEN reading_atoms /\ StartsWithAtom(Strip(l)) /\ ~IsHeaderLine(l)
  ELSE /\ found_header /\ ~Contains(l, HklHeader) /\ l.toks # <<>>
       /\ ~(~l.indent /\ l.toks[1] = "#")
RequiredFields == IF script \in AtomScripts THEN 10 ELSE 6
NumericLine(l) ==
  IF script \in AtomScripts THEN NumericAtomLine(l) ELSE NumericHklLine(l)

\* C4 as stated: no atom line and no reflection line aborts the read, a
\* line with enough fields and a value that does not parse included.
C4_AsStated ==
  [][(/\ pc = "reading" /\ file' # file
      /\ CandidateLine(file'[Len(file')])
      /\ ~(script \in HklScripts /\ IsComment(file'[Len(file')])))
     => (pc' = "reading")]_vars

\* C4 amended: in both readers an atom or reflection line with fewer than
\* the required fields is skipped silently (the records read so far are kept
\* and the read goes on); a line with enough fields and a value that does
\* not parse raises ValueError, which ends the read without a result.
C4_ShortSkippedBadRaises ==
  [][(pc = "reading" /\ file' # file /\ CandidateLine(file'[Len(file')])) =>
       LET l == file'[Len(file')] IN
       /\ Len(l.toks) < RequiredFields =>
            pc' = "reading" /\ atoms' = atoms /\ hkl_data' = hkl_data /\ out' = out
       /\ (Len(l.toks) >= RequiredFields /\ ~NumericLine(l)) =>
            pc' = "read_raised" /\ exc' = "ValueError"
       /\ (Len(l.toks) >= RequiredFields /\ NumericLine(l)) =>
            pc' = "reading" /\ Len(atoms') + Len(hkl_data') = Len(atoms) + Len(hkl_data) + 1]_vars

\* a read that had a record and then raised on a value that does not parse
C4_Witness ==
  /\ pc = "read_raised"
  /\ exc = "ValueError"
  /\ Len(Records) >= 1
  /\ Len(LastLine.toks) >= RequiredFields

\* ---- C5
\* C5: when the reader returned no record, main's next step prints the
\* no-data message and ends the run without calling a plot function; no plot
\* function is ever entered with an empty sequence.
C5_NoDataNoPlot ==
  /\ [](\A k \in 1..Len(plotted) : plotted[k].n > 0 /\ Records # <<>>)
  /\ [][(pc = "read_done" /\ Records = <<>>) =>
          /\ pc' = "done"
          /\ out' = Append(out, NoDataMessage)
          /\ exit' \in {"return", "sys.exit(1)"}
          /\ plotted' = <<>>]_vars

\* a run that ended on the no-data message
C5_Witness ==
  /\ pc = "done"
  /\ Records = <<>>
  /\ exc = NoExc
  /\ out # <<>> /\ out[Len(out)] = NoDataMessage
  /\ plotted = <<>>

\* ---- C6
\* C6 as stated: in every script an exception raised while reading or
\* plotting is caught by main's handler, printed as 'Error: <message>', and
\* the run ends without the exception leaving main.
C6_AsStated ==
  [][(pc \in RaisedPcs) =>
       (/\ out' = Append(out, <<"Error:", exc>>)
        /\ pc' = "done"
        /\ exit' # "traceback")]_vars

\* ---- C7
\* C7: for an atom list of length 0 or 1 and every target overlap,
\* calculate_optimal_scale_factor returns the scale 1.0 with an empty
\* analysis and raises nothing.
C7_FewAtoms ==
  (Len(atoms) < 2 /\ pc \in {"scale_return", "scale_raised"}) =>
    /\ pc = "scale_return"
    /\ result.scale = ONE
    /\ DOMAIN result.analysis = {}

\* one atom in a cell of volume 0: no coordinate is converted
C7_Witness ==
  /\ pc = "scale_return"
  /\ Len(atoms) = 1
  /\ script = "crystal_structure"
  /\ lattice_params.a = 0

\* ---- C8
\* the distance each variant measures: crystal3D on the fractional
\* coordinates, crystal_structure on the converted ones
PairDistance(i, j) ==
  IF script = "crystal3D.atoms"
  THEN Distance(Frac(atoms[i]), Frac(atoms[j]))
  ELSE Distance(convert_fractional_to_real(Frac(atoms[i]), lattice_params).v,
                convert_fractional_to_real(Frac(atoms[j]), lattice_params).v)
ClaimedMinDistance ==
  MinOf({PairDistance(p[1], p[2]) : p \in {q \in (1..Len(atoms)) \X (1..Len(atoms)) : q[1] < q[2]}})
ClaimedMaxRadiusSum ==
  2 * MaxOf({get_atomic_radius(atoms[i].name) : i \in 1..Len(atoms)})
\* f(t)
ClaimedScale(t) ==
  IF t <= 0 THEN FDiv(ClaimedMinDistance, ClaimedMaxRadiusSum)
  ELSE IF t < ONE
  THEN FDiv(FMul(ClaimedMinDistance, ONE + t), ClaimedMaxRadiusSum)
  ELSE FDiv(2 * ClaimedMinDistance, ClaimedMaxRadiusSum)
VariantMax == IF script = "crystal3D.atoms" THEN ScaleMax3D ELSE ScaleMaxCS
Clamped(x) == IF x < ScaleMin THEN ScaleMin ELSE IF x > VariantMax THEN VariantMax ELSE x

C9_ScaleBounds ==
  (pc = "scale_return" /\ Len(atoms) >= 2) =>
    /\ result.scale >= 10
    /\ script = "crystal3D.atoms" => result.scale <= ONE
    /\ script = "crystal_structure" => result.scale <= 5 * ONE
    /\ "optimal_scale" \in DOMAIN result.analysis
    /\ result.analysis["optimal_scale"] = result.scale

\* two hydrogens 4 A apart: f(t) is above 5.0 and the scale is 5.0
C9_Witness ==
  /\ pc = "scale_return"
  /\ script = "crystal_structure"
  /\ Len(atoms) = 2
  /\ ClaimedScale(args.target_overlap) > 5 * ONE
  /\ result.scale = 5 * ONE

\* ---- C10
\* |a - b| within the resolution of the scale times R
Near(a, b, R) == Abs(a - b) * ONE <= R + ONE

LineRead == file'[Len(file')]

\* a step of the lattice-aware reader over a '# CELL' line
ReadsCellLine ==
  /\ script = "crystal_structure"
  /\ pc = "reading"
  /\ Len(file') = Len(file) + 1
  /\ StartsWithCell(Strip(LineRead))

\* C17 as stated: in the lattice-aware reader a '# CELL' line with at least
\* 8 fields (all of fields 2..7 numeric) sets a, b, c, alpha, beta, gamma to
\* the parses of fields 2..7, and a '# CELL' line with fewer than 8 fields
\* leaves the lattice parameters as they were and does not raise.
C17_AsStated ==
  [][ReadsCellLine =>
       IF Len(LineRead.toks) >= 8
       THEN (\A n \in 3..8 : IsFloat(LineRead.toks[n])) =>
              /\ pc' = "reading"
              /\ lattice_params'.a = FloatTable[LineRead.toks[3]]
              /\ lattice_params'.b = FloatTable[LineRead.toks[4]]
              /\ lattice_params'.c = FloatTable[LineRead.toks[5]]
              /\ lattice_params'.alpha = FloatTable[LineRead.toks[6]]
              /\ lattice_params'.beta = FloatTable[LineRead.toks[7]]
              /\ lattice_params'.gamma = FloatTable[LineRead.toks[8]]
       ELSE /\ pc' = "reading"
            /\ exc' = NoExc
            /\ lattice_params' = lattice_params]_vars

\* ---- C18
\* a '# CELL' line that supplies lattice parameters
SuppliesLattice(l) == StartsWithCell(Strip(l)) /\ Len(l.toks) >= 8

\* C18: when no line of the file supplies lattice parameters, the
\* lattice-aware read_crystal_structure returns the cell a = b = c = 1.0,
\* alpha = beta = gamma = 90.0 together with the atom records of the file.
C18_DefaultCell ==
  (/\ script = "crystal_structure" /\ pc = "read_done"
   /\ \A i \in 1..Len(file) : ~SuppliesLattice(file[i])) =>
    /\ lattice_params.set
    /\ lattice_params.a = ONE /\ lattice_params.b = ONE /\ lattice_params.c = ONE
    /\ lattice_params.alpha = 90 * ONE
    /\ lattice_params.beta = 90 * ONE
    /\ lattice_params.gamma = 90 * ONE
    /\ NamesOf(atoms) =
         [k \in 1..Len(AtomRecordLines(file)) |->
            file[AtomRecordLines(file)[k]].toks[3]]

\* a file with an atom and a '# CELL' line too short to be parsed has been
\* read
C18_Witness ==
  /\ script = "crystal_structure"
  /\ pc = "read_done"
  /\ atoms # <<>>
  /\ \E i \in 1..Len(file) : StartsWithCell(Strip(file[i]))
  /\ \A i \in 1..Len(file) : ~SuppliesLattice(file[i])
  /\ lattice_params.a = ONE

\* ---- C15
\* the characters of the labels that are not alphabetic
NonAlphabetic == {"1", "2", "_", "-"}

\* the characters of a name with the non-alphabetic ones removed, the others
\* kept in their order
ClaimedKey(name) ==
  LET kept == Ascending({i \in 1..Len(Chars[name]) : Chars[name][i] \notin NonAlphabetic})
  IN [k \in 1..Len(kept) |-> Chars[name][kept[k]]]

IsLabelOf(name, E) ==
  /\ Len(Chars[name]) > Len(E)
  /\ SubSeq(Chars[name], 1, Len(E)) = E
  /\ Chars[name][Len(E) + 1] \in NonAlphabetic

\* C16 as stated: for every element symbol E of the tables and every
\* site-label suffix appended to E, the radius and the colour returned for
\* the labelled name are those of E.
C16_AsStated ==
  (pc = "names_return") =>
    \A E \in DOMAIN ATOMIC_RADII :
       IsLabelOf(atoms[1].name, E) =>
         /\ result.fn = "get_atomic_radius" => result.radius = ATOMIC_RADII[E]
         /\ result.fn = "get_element_color" => result.color = ELEMENT_COLORS[E]

\* ---- C19
\* the 0-based indices of the four corners of the grid cell in row i and
\* column j of an N x N grid stored row by row
CellCorners(N, i, j) ==
  {i * N + j, i * N + j + 1, (i + 1) * N + j, (i + 1) * N + j + 1}

Corners(face) == {face[1], face[2], face[3]}

\* C19: for a resolution N >= 2 create_sphere returns N * N vertices, the
\* vertex of row i and column j at position i * N + j (the row is the polar
\* step), and 2 * (N - 1)^2 faces whose indices lie in 0 .. N * N - 1; every
\* face is made of three distinct corners of one grid cell and every cell
\* has exactly two faces.
C19_SphereMesh ==
  (pc = "sphere_return" /\ args.resolution >= 2) =>
    LET N == args.resolution IN
    /\ Len(result.vertices) = N * N
    /\ \A i \in 0..(N - 1) : \A j \in 0..(N - 1) :
         result.vertices[i * N + j + 1][3] =
           args.center[3]
             + FMul(args.radius, CosDeg[(i * 180 * ONE) \div (N - 1)])
    /\ Len(result.faces) = 2 * (N - 1) * (N - 1)
    /\ \A f \in 1..Len(result.faces) :
         /\ Corners(result.faces[f]) \subseteq 0..(N * N - 1)
         /\ Cardinality(Corners(result.faces[f])) = 3
         /\ \E i \in 0..(N - 2) : \E j \in 0..(N - 2) :
              Corners(result.faces[f]) \subseteq CellCorners(N, i, j)
    /\ \A i \in 0..(N - 2) : \A j \in 0..(N - 2) :
         Cardinality({f \in 1..Len(result.faces) :
                        Corners(result.faces[f]) \subseteq CellCorners(N, i, j)}) = 2

\* a sphere of positive radius on a 3 x 3 grid has been built
C19_Witness ==
  /\ pc = "sphere_return"
  /\ args.resolution = 3
  /\ args.radius > 0
  /\ Len(result.vertices) = 9
  /\ Len(result.faces) = 8

\* ---- C20
\* C20 as stated: for any lattice parameters convert_fractional_to_real
\* applied to the fractional coordinates (0, 0, 0) returns (0, 0, 0).
C20_AsStated ==
  (/\ pc \in {"transform_return", "transform_raised"}
   /\ args.fractional_coords = <<0, 0, 0>>) =>
    /\ pc = "transform_return"
    /\ result.v = <<0, 0, 0>>

\* ---- C11
\* the sphere drawn for atom i
SphereOf(i) ==
  view.spheres[CHOOSE k \in 1..Len(view.spheres) : view.spheres[k].atom = i]

\* the two conditions on the pair {i, j}: d is the distance of the points
\* the two atoms are drawn at, the radii are the radii drawn at scale s
ClaimedBond(i, j) ==
  LET d == Distance(SphereOf(i).center, SphereOf(j).center) IN
  /\ d <= args.bond_cutoff
  /\ d <= (12 * (SphereOf(i).radius + SphereOf(j).radius)) \div 10

AfterAtomEvent ==
  /\ pc = "shown"
  /\ script \in AtomScripts
  /\ widgets.interactive
  /\ widgets.status.text # "Initial scale"

\* C12 as stated: in the interactive atom renderer, after any sequence of
\* control events the applied scale is the value of the scale slider and the
\* view (spheres, bonds, legend, title) is the one drawn from that value.
C12_AsStated ==
  AfterAtomEvent =>
    /\ current_scale = widgets.scale_slider.val
    /\ view.title.scale = widgets.scale_slider.val
    /\ view = update_plot(atoms, lattice_params, args, widgets.scale_slider.val)

\* ---- C13
\* reflection n lies within the six range sliders and reaches the intensity
\* threshold, all bounds included
Qualifies(n) ==
  /\ widgets.h_min.val <= hkl_data[n][1] * ONE
  /\ hkl_data[n][1] * ONE <= widgets.h_max.val
  /\ widgets.k_min.val <= hkl_data[n][2] * ONE
  /\ hkl_data[n][2] * ONE <= widgets.k_max.val
  /\ widgets.l_min.val <= hkl_data[n][3] * ONE
  /\ hkl_data[n][3] * ONE <= widgets.l_max.val
  /\ hkl_data[n][4] >= widgets.intensity.val

\* the largest intensity of the whole data set
MaxIntensity ==
  CHOOSE x \in {hkl_data[n][4] : n \in 1..Len(hkl_data)} :
    \A n \in 1..Len(hkl_data) : hkl_data[n][4] <= x

\* the markers shown are those of the qualifying reflections, one each, of
\* size (size factor) * intensity / MaxIntensity within the resolution of
\* the floats; with none the plot is cleared
FilteredDisplay ==
  /\ {view.shown[m].index : m \in 1..Len(view.shown)} =
       {n \in 1..Len(hkl_data) : Qualifies(n)}
  /\ Len(view.shown) = Cardinality({n \in 1..Len(hkl_data) : Qualifies(n)})
  /\ \A m \in 1..Len(view.shown) :
       /\ view.shown[m].h = hkl_data[view.shown[m].index][1]
       /\ view.shown[m].k = hkl_data[view.shown[m].index][2]
       /\ view.shown[m].l = hkl_data[view.shown[m].index][3]
       /\ Abs(FDiv(view.shown[m].s, widgets.size.val)
              - FDiv(hkl_data[view.shown[m].index][4], MaxIntensity)) <= 2
  /\ {n \in 1..Len(hkl_data) : Qualifies(n)} = {} =>
       /\ view.shown = <<>>
       /\ view.title.text = "No reflections match criteria"

\* C13: in the interactive reflection renderer, after every slider change
\* the reflections displayed are exactly those within the six range bounds
\* and with intensity >= threshold (bounds included), each with marker size
\* size factor * intensity / (maximum intensity of the data set); when none
\* qualifies the plot is cleared.
C13_FilteredDisplay == [][on_changed => FilteredDisplay']_vars

\* a slider change has left one reflection out and shows one whose
\* intensity equals the threshold
C13_Witness ==
  /\ pc = "shown"
  /\ script \in FilterScripts
  /\ view.by = "update_display"
  /\ Len(hkl_data) = 2
  /\ Len(view.shown) = 1
  /\ view.shown[1].c = widgets.intensity.val
  /\ widgets.h_max.val < widgets.h_max.valmax

\* ---- C14
\* every marker shown is a parsed reflection tuple, every sphere drawn is a
\* parsed atom record, and no record is shown twice
DisplayedWithinParsed ==
  /\ view.by \in {"plot", "update_display", "toggle_visibility", "clear_filter",
                  "update_size"} =>
       /\ \A m \in 1..Len(view.shown) :
            /\ view.shown[m].index \in 1..Len(hkl_data)
            /\ <<view.shown[m].h, view.shown[m].k, view.shown[m].l, view.shown[m].c>>
                 = hkl_data[view.shown[m].index]
       /\ \A m \in 1..Len(view.shown) : \A m2 \in 1..Len(view.shown) :
            view.shown[m].index = view.shown[m2].index => m = m2
  /\ view.by = "update_plot" =>
       /\ \A k \in 1..Len(view.spheres) :
            /\ view.spheres[k].atom \in 1..Len(atoms)
            /\ view.spheres[k].center = position(atoms, lattice_params,
                                                 view.spheres[k].atom)
       /\ \A k \in 1..Len(view.spheres) : \A k2 \in 1..Len(view.spheres) :
            view.spheres[k].atom = view.spheres[k2].atom => k = k2

\* C14: after parsing, no operation of a renderer (first draw, slider or
\* button event, auto-scale computation) changes the parsed atom records or
\* reflection tuples, and what is displayed is always a subset of them.
C14_ParsedReadOnly ==
  /\ [][atoms' = atoms /\ hkl_data' = hkl_data]_vars
  /\ []DisplayedWithinParsed

\* the toggle button has switched to the filtered display, which shows one
\* of two parsed reflections
C14_Witness ==
  /\ pc = "shown"
  /\ script \in FilterScripts
  /\ widgets.toggle_label = "Show Filtered"
  /\ view.by = "update_display"
  /\ Len(hkl_data) = 2
  /\ Len(view.shown) = 1

\* ---- C21
Orthogonal(lp) ==
  lp.alpha = 90 * ONE /\ lp.beta = 90 * ONE /\ lp.gamma = 90 * ONE

\* a cell has positive lengths
PositiveLengths(lp) == lp.a > 0 /\ lp.b > 0 /\ lp.c > 0

\* C21: for every orthogonal cell (alpha = beta = gamma = 90 degrees) and
\* every fractional coordinate (x, y, z), convert_fractional_to_real returns
\* (a*x, b*y, c*z), to the resolution of the floats: each axis depends only
\* on its own fractional coordinate and lattice length.
C21_OrthogonalScaling ==
  (/\ pc \in {"transform_return", "transform_raised"}
   /\ Orthogonal(lattice_params)
   /\ PositiveLengths(lattice_params)) =>
    /\ pc = "transform_return"
    /\ result.exc = NoExc
    /\ result.v = << FMul(lattice_params.a, args.fractional_coords[1]),
                     FMul(lattice_params.b, args.fractional_coords[2]),
                     FMul(lattice_params.c, args.fractional_coords[3]) >>

\* an orthogonal cell of three different lengths and a coordinate with three
\* different non-zero components have been converted
C21_Witness ==
  /\ pc = "transform_return"
  /\ Orthogonal(lattice_params)
  /\ lattice_params.a = 2 * ONE
  /\ lattice_params.b = 3500
  /\ lattice_params.c = 4 * ONE
  /\ args.fractional_coords = <<0 - 500, 500, 250>>
  /\ result.v = <<0 - ONE, 1750, ONE>>

\* ---- C22
\* the argument of the square root of the general triclinic volume, and the
\* volume
Radicand(lp) ==
  ONE * ONE - CosDeg[lp.alpha] * CosDeg[lp.alpha]
  - CosDeg[lp.beta] * CosDeg[lp.beta] - CosDeg[lp.gamma] * CosDeg[lp.gamma]
  + ((2 * CosDeg[lp.alpha] * CosDeg[lp.beta]) \div ONE) * CosDeg[lp.gamma]

Volume(lp) == FMul(FMul(FMul(lp.a, lp.b), lp.c), ISqrt(Radicand(lp)))

ValidCell(lp) ==
  /\ PositiveLengths(lp)
  /\ Radicand(lp) > 0
  /\ \A angle \in {lp.alpha, lp.beta, lp.gamma} : 0 < angle /\ angle < 180 * ONE

\* the standard triclinic transform of (x, y, z)
StandardTransform(lp, frac) ==
  << FMul(lp.a, frac[1]) + FMul(FMul(lp.b, CosDeg[lp.gamma]), frac[2])
       + FMul(FMul(lp.c, CosDeg[lp.beta]), frac[3]),
     FMul(FMul(lp.b, SinDeg[lp.gamma]), frac[2])
       + FMul(FDiv(FMul(lp.c, CosDeg[lp.alpha]
                              - FMul(CosDeg[lp.beta], CosDeg[lp.gamma])),
                   SinDeg[lp.gamma]), frac[3]),
     FMul(FDiv(Volume(lp), FMul(FMul(lp.a, lp.b), SinDeg[lp.gamma])),
          frac[3]) >>

\* C22 as stated: for every valid cell and every fractional coordinate,
\* convert_fractional_to_real returns the standard triclinic transform, with
\* z_real = V / (a * b * sin gamma) * z, V the general triclinic volume.
C22_AsStated ==
  (/\ pc \in {"transform_return", "transform_raised"}
   /\ ValidCell(lattice_params)) =>
    /\ pc = "transform_return"
    /\ \A n \in 1..3 :
         Abs(result.v[n]
             - StandardTransform(lattice_params, args.fractional_coords)[n])
           <= 5

\* ---- C23
\* C23 as stated: when auto-scale is requested for a structure with exactly
\* one parsed atom, the atom plot function raises no error, uses the scale
\* factor 1.0 and draws the plot, whether or not overlap information is
\* shown.
C23_AsStated ==
  (/\ script \in AtomScripts
   /\ pc \in {"shown", "plot_raised"}
   /\ args.auto_scale
   /\ Len(atoms) = 1) =>
    /\ pc = "shown"
    /\ exc = NoExc
    /\ Len(view.spheres) = 1
    /\ ~widgets.interactive => current_scale = ONE

\* ---- C24
\* a step of a reflection reader, after the header, over a comment line
\* (its first non-whitespace character is '#') or a blank line
ReadsCommentOrBlank ==
  /\ script \in HklScripts
  /\ pc = "reading"
  /\ found_header
  /\ Len(file') = Len(file) + 1
  /\ IsComment(LineRead) \/ LineRead.toks = <<>>

\* C24 as stated: after the reflection header, a comment line or a blank
\* line never contributes a reflection tuple and never makes the read fail,
\* whatever its number of fields and whether or not it is indented.
C24_AsStated ==
  [][ReadsCommentOrBlank =>
       /\ hkl_data' = hkl_data
       /\ pc' = "reading"
       /\ exc' = NoExc]_vars

\* ---- C25
\* C25 as stated: in interactive mode of the atom renderers, in every
\* reachable state (the initial draw included, and after any sequence of
\* slider, Reset, Auto-Scale and Optimal events) the scale applied to the
\* drawn atoms lies within the scale slider's range [0.01, 1.0].
C25_AsStated ==
  (pc = "shown" /\ script \in AtomScripts /\ widgets.interactive) =>
    /\ SliderMin <= current_scale /\ current_scale <= SliderMax
    /\ SliderMin <= view.title.scale /\ view.title.scale <= SliderMax

\* ---- C26
\* the display is the one the toggle button's label names
LabelAgrees ==
  (pc = "shown" /\ script \in FilterScripts) =>
    /\ widgets.toggle_label = "Show All" =>
         view.shown = all_scatter(hkl_data, args.size)
    /\ widgets.toggle_label = "Show Filtered" =>
         /\ {view.shown[m].index : m \in 1..Len(view.shown)} =
              {n \in 1..Len(hkl_data) : Qualifies(n)}
         /\ Len(view.shown) = Cardinality({n \in 1..Len(hkl_data) : Qualifies(n)})

\* C26 as stated: in every reachable state of the reflection renderer the
\* display agrees with the toggle button's label: while the label reads
\* 'Show All' every parsed reflection is displayed at the initial marker
\* sizes, while it reads 'Show Filtered' exactly the reflections passing the
\* current slider filter are displayed; each toggle click switches the label.
C26_AsStated ==
  /\ []LabelAgrees
  /\ [][toggle_click =>
          /\ widgets'.toggle_label # widgets.toggle_label
          /\ widgets'.toggle_label \in {"Show All", "Show Filtered"}]_vars

\* ---- C27
\* the stored reference is the one colorbar of the figure, or None when the
\* figure has none
ReferenceIsColorbar ==
  /\ view.colorbars \in {0, 1}
  /\ view.current_colorbar = "None" <=> view.colorbars = 0

\* C27 as stated: in every reachable state of the reflection renderer
\* exactly one colorbar exists while at least one reflection is displayed
\* and none exists while the filter matches no reflection; the stored
\* colorbar reference is that colorbar (or None).
C27_AsStated ==
  (pc = "shown" /\ script \in FilterScripts) =>
    /\ Len(view.shown) > 0 => view.colorbars = 1
    /\ {n \in 1..Len(hkl_data) : Qualifies(n)} = {} => view.colorbars = 0
    /\ ReferenceIsColorbar

\* C27 amended: in every reachable state of the reflection renderer exactly
\* one colorbar exists while at least one reflection is displayed and none
\* exists while no reflection is displayed (the last redraw was a filtered
\* one and its filter matched nothing); the stored colorbar reference is
\* that colorbar (or None), so no event removes a colorbar that was already
\* removed or adds a second one next to a live one.
C27_OneColorbar ==
  (pc = "shown" /\ script \in FilterScripts) =>
    /\ Len(view.shown) > 0 => view.colorbars = 1
    /\ Len(view.shown) = 0 =>
         /\ view.colorbars = 0
         /\ view.by = "update_display"
         /\ {n \in 1..Len(hkl_data) : Qualifies(n)} = {}
    /\ ReferenceIsColorbar

\* a filter that matched nothing left no colorbar; toggle clicks then led
\* back to all reflections with one colorbar while the filter still matches
\* nothing
C27_Witness ==
  /\ pc = "shown"
  /\ script \in FilterScripts
  /\ view.by = "toggle_visibility"
  /\ {n \in 1..Len(hkl_data) : Qualifies(n)} = {}
  /\ Len(view.shown) = Len(hkl_data)
  /\ view.colorbars = 1
  /\ view.current_colorbar = "colorbar"

\* ---- C28
\* column c of the parsed reflections, in the unit of the slider values
ColumnValues(c) == {hkl_data[n][c] * ONE : n \in 1..Len(hkl_data)}

\* the controls and the display as the plot function first set them up
Cleared ==
  /\ widgets.h_min.val = MinOf(ColumnValues(1))
  /\ widgets.h_max.val = MaxOf(ColumnValues(1))
  /\ widgets.k_min.val = MinOf(ColumnValues(2))
  /\ widgets.k_max.val = MaxOf(ColumnValues(2))
  /\ widgets.l_min.val = MinOf(ColumnValues(3))
  /\ widgets.l_max.val = MaxOf(ColumnValues(3))
  /\ widgets.intensity.val = MinOf({hkl_data[n][4] : n \in 1..Len(hkl_data)})
  /\ widgets.size.val = args.size
  /\ widgets.toggle_label = "Show All"
  /\ Len(view.shown) = Len(hkl_data)
  /\ \A n \in 1..Len(hkl_data) :
       /\ view.shown[n].index = n
       /\ <<view.shown[n].h, view.shown[n].k, view.shown[n].l>> =
            <<hkl_data[n][1], hkl_data[n][2], hkl_data[n][3]>>
       /\ view.shown[n].s = FMul(args.size, FDiv(hkl_data[n][4], MaxIntensity))

\* C28: from any reachable state of the reflection renderer, once a Clear
\* Filter click has completed (the slider callbacks it triggers included),
\* the six H/K/L range sliders and the intensity slider hold their initial
\* full-range values, the size slider holds the initial size factor, the
\* toggle label is 'Show All' and the display shows every parsed reflection
\* at the initial marker sizes.  (A Clear Filter click always leaves the
\* plot drawn by clear_filter; the first conjunct says so.)
C28_ClearFilter ==
  [][(view'.by = "clear_filter" /\ clear_filter_click) => Cleared']_vars

\* a Clear Filter click has completed on two reflections of different h
C28_Witness ==
  /\ pc = "shown"
  /\ script \in FilterScripts
  /\ view.by = "clear_filter"
  /\ Len(hkl_data) = 2
  /\ widgets.h_min.val < widgets.h_max.val
  /\ Cleared

\* ---- C29
\* the state of a reader before the first line
FreshReader ==
  [atoms |-> <<>>, lattice_params |-> NoLattice, reading_atoms |-> FALSE,
   hkl_data |-> <<>>, found_header |-> FALSE, exc |-> NoExc, out |-> <<>>]

\* the reader of script s run over the lines f from the state st: it stops
\* at the line that raises
RECURSIVE ReadFrom(_, _, _)
ReadFrom(s, st, f) ==
  IF f = <<>> \/ st.exc # NoExc THEN st
  ELSE ReadFrom(s, reader_of(s, st, Head(f)), Tail(f))

ReadBy(s, f) == ReadFrom(s, FreshReader, f)

\* two readers return the same sequence (field) or both fail
Agree(s1, s2, f, field) ==
  \/ /\ ReadBy(s1, f).exc = NoExc
     /\ ReadBy(s2, f).exc = NoExc
     /\ ReadBy(s1, f)[field] = ReadBy(s2, f)[field]
  \/ /\ ReadBy(s1, f).exc # NoExc
     /\ ReadBy(s2, f).exc # NoExc

\* C29 as stated: the duplicated readers agree on every input file:
\* plot_crystal.read_hkl_file, hkl_reflections.read_hkl_file and
\* crystal3D.read_hkl_reflections return the same tuple sequence or all
\* fail, and crystal3D.read_crystal_structure and
\* crystal_structure.read_crystal_structure return the same atom sequence
\* or both fail.
C29_AsStated ==
  (FileFound /\ pc \in {"reading", "read_raised"}) =>
    /\ Agree("plot_crystal", "hkl_reflections", file, "hkl_data")
    /\ Agree("hkl_reflections", "crystal3D.reflections", file, "hkl_data")
    /\ Agree("crystal3D.atoms", "crystal_structure", file, "atoms")

====
